---------------------------- MODULE Spec2Model ----------------------------
(***************************************************************************)
(* A model of the breakout scanner and its backtest evaluator:             *)
(*   DataEngine            src/src/data_loader.py                          *)
(*   ScoringEngine         src/src/scorer.py                               *)
(*   PatternDetector       src/src/detector.py (window selection)          *)
(*   analyze_single_ticker src/stock_scanner/scanner.py (scan worker)      *)
(*   get_valid_entry_price, calculate_outcome, analyze_single_ticker       *)
(*                         src/stock_scanner/analyze_results.py            *)
(*                                                                         *)
(* Units.  The wall clock `now` and file modification times of the cache   *)
(* are whole hours since the epoch, a Monday 00:00.  A report's            *)
(* modification time is whole minutes since the same epoch, in UTC.        *)
(* Calendar dates are day numbers since the epoch (day 0 is a Monday).     *)
(* Prices are tenths of a currency unit; target_profit and stop_loss are   *)
(* whole percents.  Scores and the scorer's factors are hundredths.        *)
(***************************************************************************)
EXTENDS Integers, Sequences, FiniteSets, TLC

VARIABLES
    now,      \* the wall clock, hours since the epoch
    cache,    \* the cache directory: cache key -> cached file
    market,   \* the daily bars the remote provider holds
    calls,    \* how many operations have run
    inp,      \* the inputs of the operation that ran last (or is to run)
    out       \* what that operation returned and did

vars == <<now, cache, market, calls, inp, out>>

\* A value that may be None (or a key a dict may lack) is a sequence of
\* length at most one; Get is dict.get(key, default).
Nothing == << >>

Some(x) == <<x>>

Get(opt, default) == IF opt = Nothing THEN default ELSE opt[1]

(***************************************************************************)
(* Data frames.  A frame is its set of rows and the state of its columns;  *)
(* a row has a date, a close and `na`, whether one of its OHLCV fields is  *)
(* missing.  `feat` carries what the scan computes from the Volume, High,  *)
(* Low and Close columns of a frame (the scorer's volume and volatility    *)
(* figures, the detector's fitted windows); frames of the backtest carry   *)
(* none.                                                                   *)
(***************************************************************************)
EmptyFrame == [rows |-> {}, cols |-> "ok", feat |-> Nothing]

IsEmpty(df) == df.rows = {}

Dates(df) == {r.date : r \in df.rows}

(***************************************************************************)
(* DataEngine (src/src/data_loader.py).                                    *)
(*                                                                         *)
(* A cached file is [readable, df, mtime]: a file a writer completed is    *)
(* readable and holds the frame written; a file a failed write left        *)
(* behind is not (read_parquet raises on it).  A key outside DOMAIN cache  *)
(* has no file.                                                            *)
(*                                                                         *)
(* The provider's answer to one download is `raw`: err (the call raised),  *)
(* or a frame whose columns are "ok", "multi" (a two-level column index),  *)
(* "dup" (duplicated columns) or "missing" (a required column is absent).  *)
(* The outcome of to_parquet is `wr`: "ok", "partial" (it raised after     *)
(* starting the file) or "refused" (it raised before touching the file).   *)
(***************************************************************************)
CacheExpiryHours == 12

RangeRecentDays == 1

RangeRecentTtlHours == 1

RangeHistoricTtlHours == 24

HoursPerDay == 24

Put(c, k, file) ==
    [x \in (DOMAIN c) \cup {k} |-> IF x = k THEN file ELSE c[x]]

DefaultKey(ticker) == <<ticker>>

RangeKey(ticker, start_date, end_date) ==
    <<ticker, start_date \div HoursPerDay, end_date \div HoursPerDay>>

\* A slip: the age taken in minutes against a limit given in hours.
IsCacheValidAgeInMinutes(c, path, t) ==
    /\ path \in DOMAIN c
    /\ (t - c[path].mtime) * 60 < CacheExpiryHours

IsCacheValid(c, path, t) ==
    /\ path \in DOMAIN c
    /\ t - c[path].mtime < CacheExpiryHours

\* A slip: the short limit for a range that ends today only.
IsRangeCacheValidRecentIsToday(c, path, t, end_date) ==
    /\ path \in DOMAIN c
    /\ LET days_old == (t - end_date) \div HoursPerDay
           file_age == t - c[path].mtime
       IN  IF days_old <= 0
           THEN file_age < RangeRecentTtlHours
           ELSE file_age < RangeHistoricTtlHours

IsRangeCacheValid(c, path, t, end_date) ==
    /\ path \in DOMAIN c
    /\ LET days_old == (t - end_date) \div HoursPerDay
           file_age == t - c[path].mtime
       IN  IF days_old <= RangeRecentDays
           THEN file_age < RangeRecentTtlHours
           ELSE file_age < RangeHistoricTtlHours

\* Lines 51-61: flatten the columns, keep the first of duplicated columns,
\* select the five OHLCV columns (KeyError when one is missing), dropna.
NormalizeRaises(raw) == raw.cols = "missing"

NormalizeFrame(raw) ==
    [rows |-> {[date |-> r.date, close |-> r.close, na |-> FALSE] :
                  r \in {x \in raw.rows : ~x.na}},
     cols |-> "ok",
     feat |-> raw.feat]

\* to_parquet(cache_path) at time t.
WriteParquet(c, k, df, wr, t) ==
    CASE wr = "ok"      -> Put(c, k, [readable |-> TRUE, df |-> df, mtime |-> t])
      [] wr = "partial" -> Put(c, k, [readable |-> FALSE, df |-> EmptyFrame, mtime |-> t])
      [] OTHER          -> c

\* The frame read_parquet returns, when it returns one.
CacheReadable(c, k) == c[k].readable

ReadParquet(c, k) == c[k].df

\* `except Exception as e` (lines 68 and 135) handles whatever the try
\* block raises.
ExceptCatches == TRUE

\* The try block of fetch_historical_data, lines 36-66.  exc: it raised;
\* df: the frame it returned when it did not; cache: the cache it left.
TryDownload(c, cache_path, raw, wr, t) ==
    IF raw.err THEN [exc |-> TRUE, df |-> EmptyFrame, cache |-> c]
    ELSE IF IsEmpty(raw) THEN [exc |-> FALSE, df |-> EmptyFrame, cache |-> c]
    ELSE IF NormalizeRaises(raw) THEN [exc |-> TRUE, df |-> EmptyFrame, cache |-> c]
    ELSE LET df == NormalizeFrame(raw)
         IN  [exc |-> wr # "ok", df |-> df,
              cache |-> WriteParquet(c, cache_path, df, wr, t)]

\* A slip: a fresh file served without looking at its rows.
FetchHistoricalDataServingAnyFile(c, t, ticker, force_refresh, raw, wr) ==
    LET cache_path == DefaultKey(ticker)
        hit == /\ ~force_refresh
               /\ IsCacheValid(c, cache_path, t)
               /\ CacheReadable(c, cache_path)
    IN  IF hit
        THEN [df |-> ReadParquet(c, cache_path), cache |-> c,
              remote |-> FALSE, raised |-> FALSE]
        ELSE LET r == TryDownload(c, cache_path, raw, wr, t)
             IN  [df |-> IF r.exc THEN EmptyFrame ELSE r.df,
                  cache |-> r.cache,
                  remote |-> TRUE,
                  raised |-> r.exc /\ ~ExceptCatches]

\* fetch_historical_data(ticker, force_refresh) called at time t.
\* Result: df, the frame returned; cache, the cache afterwards; remote,
\* whether yf.download was called; raised, whether an exception reached
\* the caller.
FetchHistoricalData(c, t, ticker, force_refresh, raw, wr) ==
    LET cache_path == DefaultKey(ticker)
        hit == /\ ~force_refresh
               /\ IsCacheValid(c, cache_path, t)
               /\ CacheReadable(c, cache_path)
               /\ ~IsEmpty(ReadParquet(c, cache_path))
    IN  IF hit
        THEN [df |-> ReadParquet(c, cache_path), cache |-> c,
              remote |-> FALSE, raised |-> FALSE]
        ELSE LET r == TryDownload(c, cache_path, raw, wr, t)
             IN  [df |-> IF r.exc THEN EmptyFrame ELSE r.df,
                  cache |-> r.cache,
                  remote |-> TRUE,
                  raised |-> r.exc /\ ~ExceptCatches]

\* A slip: the frame saved before it is checked for rows.
TryDownloadRangeSavesFirst(c, cache_path, raw, wr, t) ==
    IF raw.err THEN [exc |-> TRUE, df |-> EmptyFrame, cache |-> c]
    ELSE IF NormalizeRaises(raw) THEN [exc |-> TRUE, df |-> EmptyFrame, cache |-> c]
    ELSE LET df == NormalizeFrame(raw)
         IN  [exc |-> wr # "ok", df |-> df,
              cache |-> WriteParquet(c, cache_path, df, wr, t)]

\* The try block of fetch_historical_data_range, lines 103-133.
TryDownloadRange(c, cache_path, raw, wr, t) ==
    IF raw.err THEN [exc |-> TRUE, df |-> EmptyFrame, cache |-> c]
    ELSE IF IsEmpty(raw) THEN [exc |-> FALSE, df |-> EmptyFrame, cache |-> c]
    ELSE IF NormalizeRaises(raw) THEN [exc |-> TRUE, df |-> EmptyFrame, cache |-> c]
    ELSE LET df == NormalizeFrame(raw)
         IN  [exc |-> wr # "ok", df |-> df,
              cache |-> WriteParquet(c, cache_path, df, wr, t)]

\* fetch_historical_data_range(ticker, start_date, end_date) called at time
\* t; start_date and end_date are datetimes (hours since the epoch).  Every
\* caller in the repository passes end_date.
FetchHistoricalDataRange(c, t, ticker, start_date, end_date, raw, wr) ==
    LET cache_path == RangeKey(ticker, start_date, end_date)
        hit == /\ IsRangeCacheValid(c, cache_path, t, end_date)
               /\ CacheReadable(c, cache_path)
               /\ ~IsEmpty(ReadParquet(c, cache_path))
    IN  IF hit
        THEN [df |-> ReadParquet(c, cache_path), cache |-> c,
              remote |-> FALSE, raised |-> FALSE]
        ELSE LET r == TryDownloadRange(c, cache_path, raw, wr, t)
             IN  [df |-> IF r.exc THEN EmptyFrame ELSE r.df,
                  cache |-> r.cache,
                  remote |-> TRUE,
                  raised |-> r.exc /\ ~ExceptCatches]

(***************************************************************************)
(* The cache specification: one DataEngine, one ticker, calls to           *)
(* fetch_historical_data and fetch_historical_data_range interleaved with  *)
(* the passing of time.                                                    *)
(***************************************************************************)
MaxCalls == 2

Idle == [op |-> "idle"]

CacheTicker == "AAA"

\* The instants the clock visits: file ages on both sides of the 1 h, 12 h
\* and 24 h limits occur between them.
ClockInstants == {0, 1, 12, 24}

Row(d, p, missing) == [date |-> d, close |-> p, na |-> missing]

\* What the provider may answer in the cache specification.
CacheRowSets ==
    { {},
      {Row(0, 1000, FALSE)},
      {Row(0, 1010, FALSE), Row(1, 1020, TRUE)},
      {Row(0, 1000, TRUE)} }

CacheRawSet ==
    {[err |-> TRUE, rows |-> {}, cols |-> "ok", feat |-> Nothing]}
    \cup {[err |-> FALSE, rows |-> R, cols |-> "ok", feat |-> Nothing] :
             R \in CacheRowSets}
    \cup {[err |-> FALSE, rows |-> {Row(0, 1000, FALSE)}, cols |-> x,
           feat |-> Nothing] : x \in {"multi", "dup", "missing"}}

WriteOutcomes == {"ok", "partial", "refused"}

\* <<start_date, end_date>> of the range asked for.  The first ended a day
\* before the epoch: (now - end_date).days is 1 until the clock reaches 24
\* and 2 from then on, so both branches of _is_range_cache_valid are taken.
\* The second ends on the day of the epoch.
CacheRanges == {<<-240, -24>>, <<-240, 0>>}

InitCache ==
    /\ now = 0
    /\ cache = << >>
    /\ market = << >>
    /\ calls = 0
    /\ inp = Idle
    /\ out = Idle

Tick ==
    /\ \E t \in ClockInstants :
          /\ t > now
          /\ \A u \in ClockInstants : u > now => t <= u
          /\ now' = t
    /\ UNCHANGED <<cache, market, calls, inp, out>>

CallFetchHistoricalData ==
    /\ calls < MaxCalls
    /\ \E force_refresh \in BOOLEAN, raw \in CacheRawSet, wr \in WriteOutcomes :
          LET r == FetchHistoricalData(cache, now, CacheTicker, force_refresh, raw, wr)
          IN  /\ inp' = [op |-> "fetch_historical_data",
                         key |-> DefaultKey(CacheTicker),
                         force_refresh |-> force_refresh,
                         raw |-> raw, wr |-> wr, at |-> now, before |-> cache]
              /\ out' = [df |-> r.df, remote |-> r.remote, raised |-> r.raised]
              /\ cache' = r.cache
    /\ calls' = calls + 1
    /\ UNCHANGED <<now, market>>

CallFetchHistoricalDataRange ==
    /\ calls < MaxCalls
    /\ \E rg \in CacheRanges, raw \in CacheRawSet, wr \in WriteOutcomes :
          LET r == FetchHistoricalDataRange(cache, now, CacheTicker, rg[1], rg[2], raw, wr)
          IN  /\ inp' = [op |-> "fetch_historical_data_range",
                         key |-> RangeKey(CacheTicker, rg[1], rg[2]),
                         force_refresh |-> FALSE, end_date |-> rg[2],
                         raw |-> raw, wr |-> wr, at |-> now, before |-> cache]
              /\ out' = [df |-> r.df, remote |-> r.remote, raised |-> r.raised]
              /\ cache' = r.cache
    /\ calls' = calls + 1
    /\ UNCHANGED <<now, market>>

NextCache ==
    \/ Tick
    \/ CallFetchHistoricalData
    \/ CallFetchHistoricalDataRange

SpecCache == InitCache /\ [][NextCache]_vars

(***************************************************************************)
(* Claims about the cache, checked under SpecCache.                        *)
(***************************************************************************)
IsFetch == inp.op \in {"fetch_historical_data", "fetch_historical_data_range"}

\* The file the call found under its key, when there was one.
HadFile == inp.key \in DOMAIN inp.before

FileBefore == inp.before[inp.key]

\* A fetch_historical_data(T) without force_refresh that found a file a
\* fetch had completed, younger than the TTL.
CachedFetchWithinTtl ==
    /\ inp.op = "fetch_historical_data"
    /\ ~inp.force_refresh
    /\ HadFile
    /\ FileBefore.readable
    /\ now - FileBefore.mtime < CacheExpiryHours

\* C9 as stated: once a fetch has populated the cache of ticker T, every
\* fetch_historical_data(T) without force_refresh made while the file is
\* younger than the TTL returns the stored frame and calls no remote.
C9_AsStated ==
    CachedFetchWithinTtl => (~out.remote /\ out.df = FileBefore.df)

\* C9 amended: the same, for a cache file that holds at least one row.
C9_CachedFetchWithinTtl ==
    (CachedFetchWithinTtl /\ ~IsEmpty(FileBefore.df))
        => (~out.remote /\ out.df = FileBefore.df)

\* A second fetch, eleven hours after the first stored rows, served from
\* the cache.
C9_Witness ==
    /\ CachedFetchWithinTtl
    /\ ~IsEmpty(FileBefore.df)
    /\ now - FileBefore.mtime = 11
    /\ ~out.remote
    /\ out.df = FileBefore.df

\* C10: neither fetch raises to its caller, and a fetch whose remote call
\* failed or returned no rows returns the empty frame and leaves the whole
\* cache as it found it.
C10_RemoteFailureLeavesCache ==
    IsFetch =>
        /\ ~out.raised
        /\ (out.remote /\ (inp.raw.err \/ IsEmpty(inp.raw)))
              => (IsEmpty(out.df) /\ cache = inp.before)

\* A range fetch over a stale file whose download came back without rows:
\* the stale file is still there, untouched.
C10_Witness ==
    /\ inp.op = "fetch_historical_data_range"
    /\ HadFile
    /\ out.remote
    /\ ~inp.raw.err
    /\ IsEmpty(inp.raw)
    /\ IsEmpty(out.df)
    /\ cache = inp.before

(***************************************************************************)
(* calculate_outcome (src/stock_scanner/analyze_results.py).               *)
(*                                                                         *)
(* `prices` is the Close column of the performance window: a sequence of   *)
(* [date, close] in index order.                                           *)
(* of length at most one.                                                  *)
(***************************************************************************)
\* entry_price * (1 + target_profit) and entry_price * (1 - stop_loss), in
\* hundredths of the price unit (target_profit and stop_loss are percents).
TargetPrice(entry_price, target_profit) == entry_price * (100 + target_profit)

StopPrice(entry_price, stop_loss) == entry_price * (100 - stop_loss)

\* A slip: the target must be exceeded, not merely reached.
ReachesTargetStrictly(price, target_price) == price * 100 > target_price

\* price >= target_price
ReachesTarget(price, target_price) == price * 100 >= target_price

\* A slip: the stop must be passed, not merely reached.
ReachesStopStrictly(price, stop_price) == price * 100 < stop_price

\* price <= stop_price
ReachesStop(price, stop_price) == price * 100 <= stop_price

\* The loop of lines 192-196, from bar i on.
RECURSIVE WalkPrices(_, _, _, _)
WalkPrices(prices, i, target_price, stop_price) ==
    IF i > Len(prices)
    THEN [outcome |-> "Pending", exit_date |-> Nothing]
    ELSE IF ReachesTarget(prices[i].close, target_price)
    THEN [outcome |-> "Success", exit_date |-> Some(prices[i].date)]
    ELSE IF ReachesStop(prices[i].close, stop_price)
    THEN [outcome |-> "Failure", exit_date |-> Some(prices[i].date)]
    ELSE WalkPrices(prices, i + 1, target_price, stop_price)

CalculateOutcome(prices, entry_price, target_profit, stop_loss) ==
    WalkPrices(prices, 1, TargetPrice(entry_price, target_profit),
               StopPrice(entry_price, stop_loss))

(***************************************************************************)
(* The outcome specification: calculate_outcome applied to every series of *)
(* at most MaxBars forward closes.                                         *)
(***************************************************************************)
MaxBars == 4

\* 97.0, 98.0, 100.5, 101.0, 102.0, 103.0, 105.0, 106.0
OutcomeCloses == {970, 980, 1005, 1010, 1020, 1030, 1050, 1060}

OutcomeEntryPrice == 100 * 10

\* <<target_profit, stop_loss>>, percents: the defaults and a second pair.
OutcomeLimits == {<<5, 3>>, <<6, 2>>}

\* Bar i of the window is dated i days after the entry.
DatedPrices(closes) ==
    [i \in 1..Len(closes) |-> [date |-> i, close |-> closes[i]]]

CloseSeqs ==
    UNION {[1..n -> OutcomeCloses] : n \in 0..MaxBars}

InitOutcome ==
    /\ now = 0
    /\ cache = << >>
    /\ market = << >>
    /\ calls = 0
    /\ \E closes \in CloseSeqs, lim \in OutcomeLimits :
          inp = [op |-> "calculate_outcome",
                 prices |-> DatedPrices(closes),
                 entry_price |-> OutcomeEntryPrice,
                 target_profit |-> lim[1],
                 stop_loss |-> lim[2]]
    /\ out = Idle

ApplyCalculateOutcome ==
    /\ inp.op = "calculate_outcome"
    /\ out = Idle
    /\ out' = [op |-> "calculate_outcome",
               result |-> CalculateOutcome(inp.prices, inp.entry_price,
                                           inp.target_profit, inp.stop_loss)]
    /\ calls' = calls + 1
    /\ UNCHANGED <<now, cache, market, inp>>

NextOutcome == ApplyCalculateOutcome

SpecOutcome == InitOutcome /\ [][NextOutcome]_vars

(***************************************************************************)
(* Claims about calculate_outcome, checked under SpecOutcome.              *)
(***************************************************************************)
OutcomeDone == out.op = "calculate_outcome"

\* The bars whose close is at or above entry_price * (1 + target_profit),
\* and those at or below entry_price * (1 - stop_loss).
TargetBars ==
    {i \in 1..Len(inp.prices) :
        inp.prices[i].close * 100 >= inp.entry_price * (100 + inp.target_profit)}

StopBars ==
    {i \in 1..Len(inp.prices) :
        inp.prices[i].close * 100 <= inp.entry_price * (100 - inp.stop_loss)}

First(S) == CHOOSE i \in S : \A j \in S : i <= j

\* The other two examples of C5: closes 101, 98, 97 fail on the first
\* bar at or below 97 (the third), and closes 100.5, 101, 102 stay pending.
C5_Examples ==
    OutcomeDone =>
        /\ (inp.target_profit = 5 /\ inp.stop_loss = 3
               /\ inp.prices = DatedPrices(<<1010, 980, 970>>))
              => out.result = [outcome |-> "Failure", exit_date |-> Some(3)]
        /\ (inp.target_profit = 5 /\ inp.stop_loss = 3
               /\ inp.prices = DatedPrices(<<1005, 1010, 1020>>))
              => out.result = [outcome |-> "Pending", exit_date |-> Nothing]

\* C5: Success on the first bar at or above the target when no earlier bar
\* is at or below the stop; Failure on the first bar at or below the stop
\* when no earlier bar reached the target; Pending, with no exit date,
\* exactly when no bar meets either condition.
C5_OutcomeIsFirstHit ==
    OutcomeDone =>
        /\ (TargetBars # {} /\ \A j \in StopBars : j >= First(TargetBars))
              => /\ out.result.outcome = "Success"
                 /\ out.result.exit_date = Some(inp.prices[First(TargetBars)].date)
        /\ (StopBars # {} /\ \A j \in TargetBars : j >= First(StopBars))
              => /\ out.result.outcome = "Failure"
                 /\ out.result.exit_date = Some(inp.prices[First(StopBars)].date)
        /\ (out.result.outcome = "Pending") <=> (TargetBars \cup StopBars = {})
        /\ (out.result.outcome = "Pending") => (out.result.exit_date = Nothing)
        /\ C5_Examples

\* Entry 100, target 5 %, stop 3 %, closes 101, 103, 106, 98: Success on
\* the third bar.
C5_Witness ==
    /\ OutcomeDone
    /\ inp.entry_price = 1000 /\ inp.target_profit = 5 /\ inp.stop_loss = 3
    /\ inp.prices = DatedPrices(<<1010, 1030, 1060, 980>>)
    /\ out.result = [outcome |-> "Success", exit_date |-> Some(3)]

(***************************************************************************)
(* ScoringEngine (src/src/scorer.py).                                      *)
(*                                                                         *)
(* r2_high, r2_low, compression, breakout_strength, the weights, the       *)
(* freshness table and the volatility figures are hundredths.  A factor    *)
(* score is in points, One to the unit, so that a division keeps four      *)
(* decimals.  The weighted sum times final_score_scale is in millionths;   *)
(* the score returned is hundredths, as round(x, 2) leaves it.             *)
(*                                                                         *)
(* A pattern is the detector's dict: a key the dict may lack is Nothing.   *)
(* A scoring configuration is the `scoring` section of the settings, with  *)
(* the constructor's defaults applied.                                     *)
(***************************************************************************)
One == 100 * 100

Max(a, b) == IF a >= b THEN a ELSE b

Min(a, b) == IF a <= b THEN a ELSE b

\* max(0, min(1, x))
Clamp01(x) == Max(0, Min(One, x))

\* round(x, 2) of x given in millionths: the nearest hundredth, a tie going
\* to the even one.
RoundHalfEven(x, q) ==
    LET f == x \div q
        r == x % q
    IN  IF 2 * r < q THEN f
        ELSE IF 2 * r > q THEN f + 1
        ELSE IF f % 2 = 0 THEN f ELSE f + 1

Round2(x) == RoundHalfEven(x, One)

DefaultScoring ==
    [weights |-> [quality |-> Some(30), compression |-> Some(30),
                  volume |-> Some(20), breakout_strength |-> Some(10),
                  freshness |-> Some(10)],
     r2_quality_min |-> 50,
     breakout_strength_max |-> 3,
     volume_ratio_full_score |-> 200,
     breakout_age_scores |-> (1 :> 100) @@ (2 :> 70),
     breakout_age_default_score |-> 0,
     final_score_scale |-> 100,
     volatility_bonus_scale |-> 10,
     max_annual_volatility |-> 50]

CalculateQuality(cfg, pattern) ==
    LET r2_high == Get(pattern.r2_high, 0)
        r2_low == Get(pattern.r2_low, 0)
    IN  IF r2_high < cfg.r2_quality_min THEN 0
        ELSE Clamp01((r2_high + r2_low) * 50)

\* df['Volume'] raises KeyError on a frame without that column.
VolumeRaises(df) == df.feat = Nothing \/ ~df.feat[1].has_volume

\* avg_volume is Nothing when the rolling mean is NaN (fewer rows than the
\* window): rel_vol is then NaN, min(1, NaN) is 1 and the score is 1.0.
CalculateVolumeScore(cfg, df) ==
    LET recent_volume == df.feat[1].recent_volume
        avg_volume == df.feat[1].avg_volume
    IN  IF avg_volume = Nothing
        THEN IF cfg.volume_ratio_full_score <= 0 THEN 0 ELSE One
        ELSE IF avg_volume[1] = 0 THEN 0
        ELSE IF cfg.volume_ratio_full_score <= 0 THEN 0
        ELSE Clamp01((recent_volume * 100 * One)
                         \div (avg_volume[1] * cfg.volume_ratio_full_score))

CalculateVolatilityScore(cfg, df) ==
    IF df.feat[1].returns_empty THEN 0
    ELSE IF cfg.max_annual_volatility <= 0 THEN 0
    ELSE Clamp01((df.feat[1].annual_vol * One) \div cfg.max_annual_volatility)

\* Lines 52-91, once both early returns are passed.
WeightedScore(cfg, df, pattern) ==
    LET quality_score == CalculateQuality(cfg, pattern)
        compression_score == Clamp01((100 - Get(pattern.compression, 100)) * 100)
        volume_score == CalculateVolumeScore(cfg, df)
        raw_strength == Get(pattern.breakout_strength, 0)
        strength_score ==
            IF pattern.is_breaking_out[1] /\ cfg.breakout_strength_max > 0
            THEN Clamp01((raw_strength * One) \div cfg.breakout_strength_max)
            ELSE 0
        age == Get(pattern.breakout_age, 0)
        freshness_score ==
            100 * (IF age \in DOMAIN cfg.breakout_age_scores
                   THEN cfg.breakout_age_scores[age]
                   ELSE cfg.breakout_age_default_score)
        vol_score == CalculateVolatilityScore(cfg, df)
        weighted ==
            quality_score * Get(cfg.weights.quality, 20)
            + compression_score * Get(cfg.weights.compression, 30)
            + volume_score * Get(cfg.weights.volume, 30)
            + strength_score * Get(cfg.weights.breakout_strength, 10)
            + freshness_score * Get(cfg.weights.freshness, 10)
        final_score ==
            weighted * cfg.final_score_scale
            + vol_score * 100 * cfg.volatility_bonus_scale
    IN  Round2(Min(100 * 100 * One, final_score))

\* A slip: the breakdown test left out.
CalculateScoreWithoutBreakdownTest(cfg, df, pattern) ==
    IF ~Get(pattern.is_breaking_out, FALSE) THEN 0
    ELSE IF VolumeRaises(df) THEN 0
    ELSE WeightedScore(cfg, df, pattern)

\* calculate_score(df, pattern), in hundredths.
CalculateScore(cfg, df, pattern) ==
    IF Get(pattern.is_breaking_down, FALSE) THEN 0
    ELSE IF ~Get(pattern.is_breaking_out, FALSE) THEN 0
    ELSE IF VolumeRaises(df) THEN 0
    ELSE WeightedScore(cfg, df, pattern)

(***************************************************************************)
(* The scoring specification: calculate_score applied to every pattern,    *)
(* frame and configuration of the sets below.                              *)
(***************************************************************************)
OptBool == {Nothing, Some(TRUE), Some(FALSE)}

ScorePatterns ==
    [is_converging : {Some(TRUE)},
     is_breaking_out : OptBool,
     is_breaking_down : OptBool,
     breakout_age : {Some(1), Some(2), Some(3)},
     breakout_strength : {Some(-1), Some(2)},
     r2_high : {Some(40), Some(90)},
     r2_low : {Some(80)},
     compression : {Nothing, Some(-20), Some(5)}]

\* What the scorer reads of a frame: whether it has a Volume column, the
\* last volume, the 20-bar mean volume (Nothing: NaN), whether the daily
\* returns are empty, and the annualised volatility.
ScoreFeatures ==
    [has_volume : {TRUE},
     recent_volume : {300},
     avg_volume : {Nothing, Some(0), Some(100), Some(400)},
     returns_empty : {FALSE},
     annual_vol : {25, 80},
     fits : {<< >>}]
    \cup
    [has_volume : BOOLEAN,
     recent_volume : {300},
     avg_volume : {Some(100)},
     returns_empty : {TRUE},
     annual_vol : {0},
     fits : {<< >>}]

ScoreFrames ==
    {[rows |-> {[date |-> 0, close |-> 1000, na |-> FALSE]}, cols |-> "ok",
      feat |-> Some(f)] : f \in ScoreFeatures}

\* The defaults; weights that sum to more than 1; a freshness table with a
\* negative entry and a negative default; a partial weights dict with the
\* normalisers switched off.
ScoreConfigs ==
    { DefaultScoring,
      [DefaultScoring EXCEPT
          !.weights = [quality |-> Some(100), compression |-> Some(100),
                       volume |-> Some(100), breakout_strength |-> Some(100),
                       freshness |-> Some(100)],
          !.breakout_age_scores = (1 :> 500)],
      [DefaultScoring EXCEPT
          !.breakout_age_scores = (1 :> -2000) @@ (2 :> 70),
          !.breakout_age_default_score = -100],
      [DefaultScoring EXCEPT
          !.weights = [quality |-> Nothing, compression |-> Some(30),
                       volume |-> Nothing, breakout_strength |-> Some(10),
                       freshness |-> Nothing],
          !.breakout_strength_max = 0,
          !.volume_ratio_full_score = 0,
          !.max_annual_volatility = 0] }

InitScore ==
    /\ now = 0
    /\ cache = << >>
    /\ market = << >>
    /\ calls = 0
    /\ \E cfg \in ScoreConfigs, df \in ScoreFrames, pattern \in ScorePatterns :
          inp = [op |-> "calculate_score", cfg |-> cfg, df |-> df,
                 pattern |-> pattern]
    /\ out = Idle

ApplyCalculateScore ==
    /\ inp.op = "calculate_score"
    /\ out = Idle
    /\ out' = [op |-> "calculate_score",
               score |-> CalculateScore(inp.cfg, inp.df, inp.pattern)]
    /\ calls' = calls + 1
    /\ UNCHANGED <<now, cache, market, inp>>

NextScore == ApplyCalculateScore

SpecScore == InitScore /\ [][NextScore]_vars

(***************************************************************************)
(* Claims about calculate_score, checked under SpecScore.                  *)
(***************************************************************************)
ScoreDone == out.op = "calculate_score"

\* C6: the score is exactly 0 for every pattern whose is_breaking_down is
\* true (also when is_breaking_out is true) and for every pattern whose
\* is_breaking_out is false or absent, whatever the frame, the other
\* fields of the pattern and the configuration.
C6_ZeroWithoutUpwardBreakout ==
    ScoreDone =>
        ((inp.pattern.is_breaking_down = Some(TRUE)
             \/ inp.pattern.is_breaking_out \in {Nothing, Some(FALSE)})
            => out.score = 0)

\* A pattern that breaks out and breaks down at once, of a quality that
\* scores above zero with the breakdown key removed, scored 0.
C6_Witness ==
    /\ ScoreDone
    /\ inp.pattern.is_breaking_down = Some(TRUE)
    /\ inp.pattern.is_breaking_out = Some(TRUE)
    /\ out.score = 0
    /\ CalculateScore(inp.cfg, inp.df,
                      [inp.pattern EXCEPT !.is_breaking_down = Nothing]) > 0

\* C7: for every series, pattern and configuration the score lies within
\* [0, 100].
C7_ScoreWithinBounds ==
    ScoreDone => (0 <= out.score /\ out.score <= 100 * 100)

(***************************************************************************)
(* get_valid_entry_price (src/stock_scanner/analyze_results.py).           *)
(*                                                                         *)
(* The epoch is Monday 2026-10-26 00:00 UTC.  US/Eastern is UTC-4 until    *)
(* daylight saving time ends on Sunday 2026-11-01 at 06:00 UTC and UTC-5   *)
(* from then on.                                                           *)
(***************************************************************************)
MinutesPerDay == 24 * 60

DstEndUtc == 6 * MinutesPerDay + 6 * 60

\* utc_dt.astimezone(eastern): minutes since the epoch on the Eastern clock.
ToEastern(mtime) == IF mtime < DstEndUtc THEN mtime - 4 * 60 ELSE mtime - 5 * 60

\* local_dt.date(), local_dt.time() and local_dt.weekday() (Monday is 0).
DateOf(local_dt) == local_dt \div MinutesPerDay

TimeOf(local_dt) == local_dt % MinutesPerDay

Weekday(d) == d % 7

\* time(9, 30) and time(16, 0)
MarketOpen == 9 * 60 + 30

MarketClose == 16 * 60

\* A slip: the close itself taken as inside the trading hours.
DuringMarketHoursCloseIncluded(local_dt) ==
    /\ Weekday(DateOf(local_dt)) < 5
    /\ MarketOpen <= TimeOf(local_dt)
    /\ TimeOf(local_dt) <= MarketClose

\* is_market_day and market_open <= local_time < market_close
DuringMarketHours(local_dt) ==
    /\ Weekday(DateOf(local_dt)) < 5
    /\ MarketOpen <= TimeOf(local_dt)
    /\ TimeOf(local_dt) < MarketClose

\* The loop of lines 91-92.
RECURSIVE RollBackWeekend(_)
RollBackWeekend(d) == IF Weekday(d) >= 5 THEN RollBackWeekend(d - 1) ELSE d

\* A slip: a weekend signal referred to the day before it.
ReferenceDateWithoutRollBack(local_dt) ==
    IF Weekday(DateOf(local_dt)) >= 5 THEN DateOf(local_dt) - 1
    ELSE IF TimeOf(local_dt) >= MarketClose THEN DateOf(local_dt)
    ELSE DateOf(local_dt) - 1

\* A slip: a signal saved before the open referred to its own day.
ReferenceDateSameDayBeforeOpen(local_dt) ==
    IF Weekday(DateOf(local_dt)) >= 5 THEN RollBackWeekend(DateOf(local_dt))
    ELSE DateOf(local_dt)

\* Lines 87-99.
ReferenceDate(local_dt) ==
    IF Weekday(DateOf(local_dt)) >= 5 THEN RollBackWeekend(DateOf(local_dt))
    ELSE IF TimeOf(local_dt) >= MarketClose THEN DateOf(local_dt)
    ELSE DateOf(local_dt) - 1

LookBackDays == 10

\* datetime.combine(d, time(0, 0)), in hours since the epoch.
Midnight(d) == d * HoursPerDay

\* A slip: the range ended at the reference date, which yf.download excludes.
RangeEndAtReference(reference_date) == Midnight(reference_date)

\* end_date of line 107
RangeEnd(reference_date) == Midnight(reference_date + 1)

\* start_date of line 106
RangeStart(reference_date) == Midnight(reference_date - LookBackDays)

\* yf.download(ticker, start, end): what the provider answers for the bars
\* it holds, `mkt`; it is asked by date, the end excluded.  mode "error": the
\* call raises.
Download(mkt, mode, start_date, end_date) ==
    IF mode = "error"
    THEN [err |-> TRUE, rows |-> {}, cols |-> "ok", feat |-> Nothing]
    ELSE [err |-> FALSE,
          rows |-> {r \in mkt : /\ start_date \div HoursPerDay <= r.date
                                /\ r.date < end_date \div HoursPerDay},
          cols |-> "ok", feat |-> Nothing]

\* df.sort_index().iloc[-1]
LastRow(df) == CHOOSE r \in df.rows : \A x \in df.rows : x.date <= r.date

\* get_valid_entry_price(ticker_symbol, html_file_path, data_engine) called
\* at time t.  report is Nothing when the path does not exist and the
\* file's modification time otherwise.  Result: entry_price; info, the
\* trade date or the error message; meta ({} is Nothing); cache, the cache
\* afterwards; fetches, the calls made to fetch_historical_data_range.
GetValidEntryPrice(c, t, ticker_symbol, report, mkt, mode, wr) ==
    IF report = Nothing
    THEN [entry_price |-> Nothing,
          info |-> [date |-> Nothing, error |-> "path does not exist"],
          meta |-> Nothing, cache |-> c, fetches |-> 0]
    ELSE
    LET local_dt == ToEastern(report[1])
    IN  IF DuringMarketHours(local_dt)
        THEN [entry_price |-> Nothing,
              info |-> [date |-> Nothing, error |-> "scan ran during market hours"],
              meta |-> Some([scan_timestamp_et |-> local_dt,
                             reference_date |-> Nothing]),
              cache |-> c, fetches |-> 0]
        ELSE
        LET reference_date == ReferenceDate(local_dt)
            start_date == RangeStart(reference_date)
            end_date == RangeEnd(reference_date)
            r == FetchHistoricalDataRange(c, t, ticker_symbol, start_date, end_date,
                     Download(mkt, mode, start_date, end_date), wr)
            meta == Some([scan_timestamp_et |-> local_dt,
                          reference_date |-> Some(reference_date)])
        IN  IF IsEmpty(r.df)
            THEN [entry_price |-> Nothing,
                  info |-> [date |-> Nothing, error |-> "no historical data"],
                  meta |-> meta, cache |-> r.cache, fetches |-> 1]
            ELSE [entry_price |-> Some(LastRow(r.df).close),
                  info |-> [date |-> Some(LastRow(r.df).date), error |-> ""],
                  meta |-> meta, cache |-> r.cache, fetches |-> 1]

(***************************************************************************)
(* analyze_single_ticker of the backtest                                   *)
(* (src/stock_scanner/analyze_results.py).                                 *)
(***************************************************************************)
ContextDays == 365

\* The rows of a set in index (date) order.
RECURSIVE SortedRows(_)
SortedRows(S) ==
    IF S = {} THEN << >>
    ELSE LET r == CHOOSE x \in S : \A y \in S : x.date <= y.date
         IN  <<r>> \o SortedRows(S \ {r})

\* ((price - entry_price) / entry_price) * 100, rounded to two decimals:
\* hundredths of a percent.
ReturnPct(price, entry_price) ==
    RoundHalfEven(((price - entry_price) * 100 * 100 * 100) \div entry_price, 100)

\* prices.idxmax() and prices.idxmin(): the first date of the extreme.
IdxMax(prices) ==
    LET i == CHOOSE k \in 1..Len(prices) :
                 /\ \A j \in 1..Len(prices) : prices[j].close <= prices[k].close
                 /\ \A j \in 1..(k - 1) : prices[j].close < prices[k].close
    IN  prices[i]

IdxMin(prices) ==
    LET i == CHOOSE k \in 1..Len(prices) :
                 /\ \A j \in 1..Len(prices) : prices[j].close >= prices[k].close
                 /\ \A j \in 1..(k - 1) : prices[j].close > prices[k].close
    IN  prices[i]

\* The record with its current return taken inside the performance window.
BuildRecordCurrentInWindow(df, ticker, analysis_date, score, bt, entry_price, entry_date, meta) ==
    LET future_data == {r \in df.rows : r.date > entry_date}
        window_end == entry_date + bt.performance_window_days
        window_data == {r \in future_data : r.date <= window_end}
        prices == SortedRows(window_data)
        future == SortedRows(future_data)
        current == prices[Len(prices)]
        oc == CalculateOutcome(prices, entry_price, bt.target_profit, bt.stop_loss)
    IN  IF future_data = {} \/ window_data = {} THEN Nothing
        ELSE Some(
          [ticker |-> ticker,
           analysis_date |-> analysis_date,
           entry_date |-> entry_date,
           entry_price |-> entry_price,
           scan_timestamp_et |->
               IF meta = Nothing THEN Nothing ELSE Some(meta[1].scan_timestamp_et),
           reference_date |->
               IF meta = Nothing THEN Nothing ELSE meta[1].reference_date,
           score |-> score,
           max_return_pct |-> ReturnPct(IdxMax(prices).close, entry_price),
           max_return_date |-> IdxMax(prices).date,
           max_drawdown_pct |-> ReturnPct(IdxMin(prices).close, entry_price),
           max_drawdown_date |-> IdxMin(prices).date,
           current_return_pct |-> ReturnPct(current.close, entry_price),
           current_date |-> current.date,
           outcome |-> oc.outcome,
           exit_date |-> oc.exit_date,
           holding_days |->
               IF oc.exit_date # Nothing THEN oc.exit_date[1] - entry_date
               ELSE current.date - entry_date])

\* Lines 269-360: the record built once the entry is known.  Nothing when
\* no bar follows the entry within the performance window.
BuildRecord(df, ticker, analysis_date, score, bt, entry_price, entry_date, meta) ==
    LET future_data == {r \in df.rows : r.date > entry_date}
        window_end == entry_date + bt.performance_window_days
        window_data == {r \in future_data : r.date <= window_end}
        prices == SortedRows(window_data)
        future == SortedRows(future_data)
        current == future[Len(future)]
        oc == CalculateOutcome(prices, entry_price, bt.target_profit, bt.stop_loss)
    IN  IF future_data = {} \/ window_data = {} THEN Nothing
        ELSE Some(
          [ticker |-> ticker,
           analysis_date |-> analysis_date,
           entry_date |-> entry_date,
           entry_price |-> entry_price,
           scan_timestamp_et |->
               IF meta = Nothing THEN Nothing ELSE Some(meta[1].scan_timestamp_et),
           reference_date |->
               IF meta = Nothing THEN Nothing ELSE meta[1].reference_date,
           score |-> score,
           max_return_pct |-> ReturnPct(IdxMax(prices).close, entry_price),
           max_return_date |-> IdxMax(prices).date,
           max_drawdown_pct |-> ReturnPct(IdxMin(prices).close, entry_price),
           max_drawdown_date |-> IdxMin(prices).date,
           current_return_pct |-> ReturnPct(current.close, entry_price),
           current_date |-> current.date,
           outcome |-> oc.outcome,
           exit_date |-> oc.exit_date,
           holding_days |->
               IF oc.exit_date # Nothing THEN oc.exit_date[1] - entry_date
               ELSE current.date - entry_date])

\* analyze_single_ticker(ticker, analysis_date, score, data_engine,
\* target_profit, stop_loss, performance_window_days, report_path) called
\* at time t.  report_path is Nothing when no path is given and Some(report)
\* otherwise.  mode and wr are the provider's and to_parquet's behaviour in
\* the call's two fetches.  Result: record (Nothing: None was returned);
\* entry, what get_valid_entry_price returned (Nothing: it was not called);
\* cache, the cache afterwards.
BacktestAnalyzeSingleTicker(c, t, ticker, analysis_date, score, bt, report_path, mkt, mode, wr) ==
    LET start_date == Midnight(analysis_date - ContextDays)
        end_date == t
        r == FetchHistoricalDataRange(c, t, ticker, start_date, end_date,
                 Download(mkt, mode[1], start_date, end_date), wr[1])
        df == r.df
    IN  IF IsEmpty(df)
        THEN [record |-> Nothing, entry |-> Nothing, cache |-> r.cache]
        ELSE IF report_path # Nothing
        THEN LET e == GetValidEntryPrice(r.cache, t, ticker, report_path[1],
                                         mkt, mode[2], wr[2])
             IN  IF e.entry_price = Nothing
                 THEN [record |-> Nothing, entry |-> Some(e), cache |-> e.cache]
                 ELSE [record |-> BuildRecord(df, ticker, analysis_date, score, bt,
                                              e.entry_price[1], e.info.date[1], e.meta),
                       entry |-> Some(e), cache |-> e.cache]
        ELSE LET prior_data == {x \in df.rows : x.date <= analysis_date}
             IN  IF prior_data = {}
                 THEN [record |-> Nothing, entry |-> Nothing, cache |-> r.cache]
                 ELSE [record |-> BuildRecord(df, ticker, analysis_date, score, bt,
                                              LastRow([df EXCEPT !.rows = prior_data]).close,
                                              LastRow([df EXCEPT !.rows = prior_data]).date,
                                              Nothing),
                       entry |-> Nothing, cache |-> r.cache]

(***************************************************************************)
(* The entry specification: one call of get_valid_entry_price or of the    *)
(* backtest's analyze_single_ticker, for a report saved at any probed      *)
(* minute of the days 0 .. MaxDays - 1, against every market of Markets    *)
(* and every prior cache of PriorCaches.  The epoch is Monday 2026-10-26   *)
(* 00:00 UTC, so daylight saving time ends on day 6.                       *)
(***************************************************************************)
MaxDays == 9

EntryTicker == "AAA"

\* The calls are made after the last bar the market holds.
EntryNow == Midnight(MaxDays + 7) + 20

\* Eastern wall-clock minutes probed: midnight, 08:00, 09:29, 09:30, 10:15,
\* 15:59, 16:00, 17:00, 23:59; each both as EDT and as EST.
LocalProbes == {0, 8 * 60, MarketOpen - 1, MarketOpen, 10 * 60 + 15,
                MarketClose - 1, MarketClose, 17 * 60, MinutesPerDay - 1}

UtcProbes == {(l + off * 60) % MinutesPerDay : l \in LocalProbes, off \in {4, 5}}

ReportTimes == {d * MinutesPerDay + m : d \in 0..(MaxDays - 1), m \in UtcProbes}

\* A report: the file's modification time, or Nothing when the path does
\* not exist.
Reports == {Nothing} \cup {Some(m) : m \in ReportTimes}

MarketDays == (-18)..(MaxDays + 6)

BarClose(d) == 1000 + 10 * ((d * d) % 7) - 20

\* The bars of a market open on the weekdays outside `closed`; the bars of
\* the days of `partial` lack a field.
Market(closed, partial) ==
    {Row(d, BarClose(d), d \in partial) :
        d \in {x \in MarketDays : Weekday(x) < 5 /\ x \notin closed}}

\* Every weekday; Friday a holiday; Thursday and Friday holidays; Friday's
\* bar incomplete; nothing listed; nothing traded from day -16 to day 6;
\* the second Wednesday a holiday, after which the closes stay within 2% of
\* Tuesday's for a week.
Markets ==
    { Market({}, {}),
      Market({9}, {}),
      Market({-3, 4}, {}),
      Market({-4, -3, 3, 4}, {}),
      Market({}, {-3, 4}),
      {},
      Market((-16)..6, {}) }

\* The cache before the call: empty, or holding the file an earlier call
\* for the reference date `ref` wrote `age` hours ago.
PriorCache(mkt, ref, age) ==
    FetchHistoricalDataRange(<< >>, EntryNow - age, EntryTicker,
        RangeStart(ref), RangeEnd(ref),
        Download(mkt, "ok", RangeStart(ref), RangeEnd(ref)), "ok").cache

PriorCaches(mkt) ==
    {<< >>} \cup {PriorCache(mkt, 4, age) : age \in {0, 2 * HoursPerDay}}

DownloadModes == {"ok", "error"}

\* target_profit, stop_loss and performance_window_days of a backtest run.
BacktestSettings ==
    [target_profit |-> 2, stop_loss |-> 2, performance_window_days |-> 5]

\* <<analysis_date, report_path>>: with a report, the date of its file
\* name; without one, a date before and a date within the market's bars.
BacktestReports ==
    {<<5, Some(r)>> : r \in Reports} \cup {<<-20, Nothing>>, <<5, Nothing>>}

InitEntry ==
    /\ now = EntryNow
    /\ market \in Markets
    /\ cache \in PriorCaches(market)
    /\ calls = 0
    /\ inp = Idle
    /\ out = Idle

CallGetValidEntryPrice ==
    /\ inp = Idle
    /\ \E report \in Reports, mode \in DownloadModes, wr \in WriteOutcomes :
          LET e == GetValidEntryPrice(cache, now, EntryTicker, report,
                                      market, mode, wr)
          IN  /\ inp' = [op |-> "get_valid_entry_price", report |-> report,
                         mode |-> mode, wr |-> wr, before |-> cache]
              /\ out' = [entry_price |-> e.entry_price, info |-> e.info,
                         meta |-> e.meta, fetches |-> e.fetches]
              /\ cache' = e.cache
    /\ calls' = calls + 1
    /\ UNCHANGED <<now, market>>

CallBacktestAnalyzeSingleTicker ==
    /\ inp = Idle
    /\ \E a \in BacktestReports, mode \in DownloadModes \X DownloadModes,
          wr \in WriteOutcomes \X WriteOutcomes :
          LET b == BacktestAnalyzeSingleTicker(cache, now, EntryTicker, a[1], 8000,
                       BacktestSettings, a[2], market, mode, wr)
          IN  /\ inp' = [op |-> "analyze_single_ticker", analysis_date |-> a[1],
                         report_path |-> a[2], mode |-> mode, wr |-> wr,
                         before |-> cache]
              /\ out' = [record |-> b.record, entry |-> b.entry]
              /\ cache' = b.cache
    /\ calls' = calls + 1
    /\ UNCHANGED <<now, market>>

NextEntry == CallGetValidEntryPrice \/ CallBacktestAnalyzeSingleTicker

SpecEntry == InitEntry /\ [][NextEntry]_vars

(***************************************************************************)
(* Properties of get_valid_entry_price.  They read the call's inputs and   *)
(* outputs and recompute the calendar from the report's timestamp.         *)
(***************************************************************************)
EntryCalled == inp.op = "get_valid_entry_price" /\ inp.report # Nothing

\* The report's timestamp on the Eastern clock: its date, weekday and time.
SignalDate == ToEastern(inp.report[1]) \div (24 * 60)

SignalWeekday == SignalDate % 7

SignalTime == ToEastern(inp.report[1]) % (24 * 60)

InTradingHours ==
    /\ SignalWeekday \in 0..4
    /\ 9 * 60 + 30 <= SignalTime
    /\ SignalTime < 16 * 60

\* No entry price, an error message, reference_date None, no price fetch.
Rejected ==
    /\ out.entry_price = Nothing
    /\ out.info.date = Nothing
    /\ out.info.error # ""
    /\ out.meta # Nothing
    /\ out.meta[1].reference_date = Nothing
    /\ out.fetches = 0
    /\ cache = inp.before

\* C1: get_valid_entry_price rejects a signal (no entry price, an error
\* message, reference_date None, no price fetch) if and only if its
\* timestamp on the Eastern clock is on Monday-Friday with
\* 09:30 <= time < 16:00.  10:15 on a Tuesday is rejected; 16:00 sharp on a
\* weekday and any Saturday or Sunday timestamp are accepted.
C1_RejectedIffTradingHours ==
    EntryCalled =>
        /\ Rejected <=> InTradingHours
        /\ (SignalWeekday = 1 /\ SignalTime = 10 * 60 + 15) => Rejected
        /\ (SignalWeekday \in 0..4 /\ SignalTime = 16 * 60) => ~Rejected
        /\ SignalWeekday \in {5, 6} => ~Rejected

\* A Tuesday 10:15 signal was rejected.
C1_Witness ==
    /\ EntryCalled
    /\ SignalWeekday = 1
    /\ SignalTime = 10 * 60 + 15
    /\ Rejected

Accepted == EntryCalled /\ ~InTradingHours

\* C2 as stated: a signal saved before 09:30 on a Monday has the prior
\* Friday as its reference_date.
C2_AsStated ==
    (Accepted /\ SignalWeekday = 0 /\ SignalTime < 9 * 60 + 30) =>
        out.meta[1].reference_date = Some(SignalDate - 3)

\* C2: a signal saved before 09:30 on a Monday has the day before it, a
\* Sunday, as its reference_date; the entry it is given is dated no later
\* than the prior Friday.
C2_MondayBeforeOpen ==
    (Accepted /\ SignalWeekday = 0 /\ SignalTime < 9 * 60 + 30) =>
        /\ out.meta # Nothing
        /\ out.meta[1].reference_date = Some(SignalDate - 1)
        /\ (SignalDate - 1) % 7 = 6
        /\ out.entry_price # Nothing => out.info.date[1] <= SignalDate - 3

\* A Monday 08:00 signal entered on the prior Friday.
C2_Witness ==
    /\ Accepted
    /\ SignalWeekday = 0
    /\ SignalTime = 8 * 60
    /\ out.entry_price # Nothing
    /\ out.info.date = Some(SignalDate - 3)
    /\ out.meta[1].reference_date = Some(SignalDate - 1)

\* C3: for every accepted timestamp, reference_date is the most recent
\* Friday when the local day is a Saturday or a Sunday, the local date
\* when it is a weekday at or after 16:00, and the local date minus one
\* day when it is a weekday before 09:30; it is never later than the local
\* date.
C3_ReferenceDate ==
    Accepted =>
        /\ out.meta # Nothing
        /\ out.meta[1].reference_date # Nothing
        /\ LET reference_date == out.meta[1].reference_date[1]
           IN  /\ SignalWeekday = 5 => reference_date = SignalDate - 1
               /\ SignalWeekday = 6 => reference_date = SignalDate - 2
               /\ SignalWeekday \in {5, 6} => reference_date % 7 = 4
               /\ (SignalWeekday \in 0..4 /\ SignalTime >= 16 * 60) =>
                      reference_date = SignalDate
               /\ (SignalWeekday \in 0..4 /\ SignalTime < 9 * 60 + 30) =>
                      reference_date = SignalDate - 1
               /\ reference_date <= SignalDate

\* A Sunday signal was referred to the Friday before it.
C3_Witness ==
    /\ Accepted
    /\ SignalWeekday = 6
    /\ out.meta[1].reference_date = Some(SignalDate - 2)

\* The complete bars the provider holds from ten days before a date to it.
BarsInRange(reference_date) ==
    {r \in market : /\ ~r.na
                    /\ reference_date - 10 <= r.date
                    /\ r.date <= reference_date}

LatestBar(reference_date) ==
    CHOOSE r \in BarsInRange(reference_date) :
        \A x \in BarsInRange(reference_date) : x.date <= r.date

\* What C4 asks of one result e of get_valid_entry_price for an accepted
\* signal.
EntryIsLatestBar(e) ==
    LET reference_date == e.meta[1].reference_date[1]
    IN  /\ e.entry_price # Nothing =>
              /\ BarsInRange(reference_date) # {}
              /\ e.info.date = Some(LatestBar(reference_date).date)
              /\ e.entry_price = Some(LatestBar(reference_date).close)
              /\ e.info.date[1] <= reference_date
        /\ BarsInRange(reference_date) = {} => e.entry_price = Nothing

\* C4: for an accepted signal the entry is the latest bar the provider has
\* with a date at most reference_date, looking back 10 calendar days: its
\* date, its close, never later than reference_date (a Friday 17:00 signal
\* has that Friday as reference_date).  When the provider has no bar in
\* that range no entry price is returned, and the backtest produces no
\* record for the signal.
C4_EntryIsLatestBar ==
    /\ Accepted =>
          /\ EntryIsLatestBar(out)
          /\ (SignalWeekday = 4 /\ SignalTime = 17 * 60) =>
                 out.meta[1].reference_date = Some(SignalDate)
    /\ (inp.op = "analyze_single_ticker" /\ out.entry # Nothing) =>
          LET e == out.entry[1]
          IN  /\ (e.meta # Nothing /\ e.meta[1].reference_date # Nothing) =>
                     EntryIsLatestBar(e)
              /\ e.entry_price = Nothing => out.record = Nothing
              /\ out.record # Nothing =>
                     /\ out.record[1].entry_date = e.info.date[1]
                     /\ out.record[1].entry_price = e.entry_price[1]

\* A Friday 17:00 signal, the Friday a holiday: the entry is Thursday's bar.
C4_Witness ==
    /\ Accepted
    /\ SignalWeekday = 4
    /\ SignalTime = 17 * 60
    /\ \A r \in market : r.date # SignalDate
    /\ out.entry_price # Nothing
    /\ out.info.date = Some(SignalDate - 1)

(***************************************************************************)
(* PatternDetector.analyze_convergence (src/src/detector.py).  The fit of  *)
(* one window, _find_pattern_in_window, is numerical work on the High, Low *)
(* and Close columns; a frame carries its outcome per window in            *)
(* feat.fits, and the number of its bars in feat.bars.                     *)
(***************************************************************************)
\* list(range(40, 360, 10))
AdaptiveWindows == {40 + 10 * k : k \in 0..31}

\* A trendline slope * x_axis + intercept, x_axis counting the bars of the
\* window from 0.
Line(slope, intercept) == [slope |-> slope, intercept |-> intercept]

LineAt(line, x) == line.slope * x + line.intercept

\* The result of a window with too few extrema (line 93).
InsufficientExtrema ==
    [is_converging |-> Some(FALSE), is_breaking_out |-> Some(FALSE),
     is_breaking_down |-> Nothing, breakout_age |-> Nothing,
     breakout_strength |-> Nothing, r2_high |-> Some(-100), r2_low |-> Nothing,
     compression |-> Nothing, selection_score |-> Nothing,
     used_window |-> Nothing, trendlines |-> Nothing]

\* best_result of lines 26-33.
NoPattern ==
    [is_converging |-> Some(FALSE), is_breaking_out |-> Some(FALSE),
     is_breaking_down |-> Nothing, breakout_age |-> Some(0),
     breakout_strength |-> Nothing, r2_high |-> Some(-100), r2_low |-> Nothing,
     compression |-> Nothing, selection_score |-> Some(-100 * 100),
     used_window |-> Nothing,
     trendlines |-> Some([upper |-> Nothing, lower |-> Nothing])]

FindPatternInWindow(df, window) ==
    IF window \in DOMAIN df.feat[1].fits THEN df.feat[1].fits[window]
    ELSE InsufficientExtrema

\* A slip: no weight for the short windows.
SelectionScoreWithoutWindowWeight(result, window) ==
    result.r2_high[1] * 10 * (IF result.r2_high[1] > 80 THEN 15 ELSE 10)

\* r2_high * window_weight * quality_bonus, in ten-thousandths.
SelectionScore(result, window) ==
    result.r2_high[1]
    * (IF window <= 90 THEN 12 ELSE 10)
    * (IF result.r2_high[1] > 80 THEN 15 ELSE 10)

\* The numerical work raises on this frame.
DetectorRaises(df) == df.feat[1].detector_raises

\* A slip: a window qualifies by its breakout alone.
AnalyzeConvergenceOnBreakoutAlone(df) ==
    LET valid == {w \in AdaptiveWindows :
                     /\ df.feat[1].bars >= w
                     /\ FindPatternInWindow(df, w).is_breaking_out[1]}
        score(w) == SelectionScore(FindPatternInWindow(df, w), w)
        best == CHOOSE w \in valid :
                    \A v \in valid : \/ score(v) < score(w)
                                     \/ score(v) = score(w) /\ w <= v
    IN  IF valid = {} THEN NoPattern
        ELSE [FindPatternInWindow(df, best) EXCEPT
                 !.selection_score = Some(score(best)),
                 !.used_window = Some(best)]

AnalyzeConvergence(df) ==
    LET valid == {w \in AdaptiveWindows :
                     /\ df.feat[1].bars >= w
                     /\ FindPatternInWindow(df, w).is_converging[1]
                     /\ FindPatternInWindow(df, w).is_breaking_out[1]}
        score(w) == SelectionScore(FindPatternInWindow(df, w), w)
        best == CHOOSE w \in valid :
                    \A v \in valid : \/ score(v) < score(w)
                                     \/ score(v) = score(w) /\ w <= v
    IN  IF valid = {} THEN NoPattern
        ELSE [FindPatternInWindow(df, best) EXCEPT
                 !.selection_score = Some(score(best)),
                 !.used_window = Some(best)]

(***************************************************************************)
(* The scan worker analyze_single_ticker and StockScanner.scan             *)
(* (src/stock_scanner/scanner.py).                                         *)
(***************************************************************************)
\* A slip: the scorer run on every upward breakout, whatever its r2_high.
ScanAnalyzeSingleTickerWithoutQualityTest(c, t, ticker, cfg, raw, wr) ==
    LET r == FetchHistoricalData(c, t, ticker, FALSE, raw, wr)
        pattern == AnalyzeConvergence(r.df)
        score == CalculateScore(cfg, r.df, pattern)
    IN  IF IsEmpty(r.df)
        THEN [candidate |-> Nothing, df |-> r.df, pattern |-> Nothing,
              score |-> Nothing, cache |-> r.cache, raised |-> FALSE,
              escaped |-> FALSE]
        ELSE IF DetectorRaises(r.df)
        THEN [candidate |-> Nothing, df |-> r.df, pattern |-> Nothing,
              score |-> Nothing, cache |-> r.cache, raised |-> TRUE,
              escaped |-> FALSE]
        ELSE IF Get(pattern.is_breaking_out, FALSE)
        THEN [candidate |->
                  IF score > 0
                  THEN Some([ticker |-> ticker, data |-> r.df,
                             pattern |-> pattern, score |-> score])
                  ELSE Nothing,
              df |-> r.df, pattern |-> Some(pattern), score |-> Some(score),
              cache |-> r.cache, raised |-> FALSE, escaped |-> FALSE]
        ELSE [candidate |-> Nothing, df |-> r.df, pattern |-> Some(pattern),
              score |-> Nothing, cache |-> r.cache, raised |-> FALSE,
              escaped |-> FALSE]

\* A slip: the worker without its try/except.
ScanAnalyzeSingleTickerWithoutExcept(c, t, ticker, cfg, raw, wr) ==
    LET r == FetchHistoricalData(c, t, ticker, FALSE, raw, wr)
        pattern == AnalyzeConvergence(r.df)
        score == CalculateScore(cfg, r.df, pattern)
    IN  IF IsEmpty(r.df)
        THEN [candidate |-> Nothing, df |-> r.df, pattern |-> Nothing,
              score |-> Nothing, cache |-> r.cache, raised |-> FALSE,
              escaped |-> FALSE]
        ELSE IF DetectorRaises(r.df)
        THEN [candidate |-> Nothing, df |-> r.df, pattern |-> Nothing,
              score |-> Nothing, cache |-> r.cache, raised |-> TRUE,
              escaped |-> TRUE]
        ELSE IF Get(pattern.is_breaking_out, FALSE) /\ Get(pattern.r2_high, 0) >= 50
        THEN [candidate |->
                  IF score > 0
                  THEN Some([ticker |-> ticker, data |-> r.df,
                             pattern |-> pattern, score |-> score])
                  ELSE Nothing,
              df |-> r.df, pattern |-> Some(pattern), score |-> Some(score),
              cache |-> r.cache, raised |-> FALSE, escaped |-> FALSE]
        ELSE [candidate |-> Nothing, df |-> r.df, pattern |-> Some(pattern),
              score |-> Nothing, cache |-> r.cache, raised |-> FALSE,
              escaped |-> FALSE]

\* analyze_single_ticker(ticker, data_engine, detector, scorer) run at time
\* t.  Result: candidate, what it returned; df, the frame fetched; pattern,
\* the detector's result (Nothing: the detector was not run or raised);
\* score, what the scorer returned (Nothing: the scorer was not invoked);
\* cache, the cache afterwards; raised, an exception was raised inside the
\* try block; escaped, it reached the caller.
ScanAnalyzeSingleTicker(c, t, ticker, cfg, raw, wr) ==
    LET r == FetchHistoricalData(c, t, ticker, FALSE, raw, wr)
        pattern == AnalyzeConvergence(r.df)
        score == CalculateScore(cfg, r.df, pattern)
    IN  IF IsEmpty(r.df)
        THEN [candidate |-> Nothing, df |-> r.df, pattern |-> Nothing,
              score |-> Nothing, cache |-> r.cache, raised |-> FALSE,
              escaped |-> FALSE]
        ELSE IF DetectorRaises(r.df)
        THEN [candidate |-> Nothing, df |-> r.df, pattern |-> Nothing,
              score |-> Nothing, cache |-> r.cache, raised |-> TRUE,
              escaped |-> FALSE]
        ELSE IF Get(pattern.is_breaking_out, FALSE) /\ Get(pattern.r2_high, 0) >= 50
        THEN [candidate |->
                  IF score > 0
                  THEN Some([ticker |-> ticker, data |-> r.df,
                             pattern |-> pattern, score |-> score])
                  ELSE Nothing,
              df |-> r.df, pattern |-> Some(pattern), score |-> Some(score),
              cache |-> r.cache, raised |-> FALSE, escaped |-> FALSE]
        ELSE [candidate |-> Nothing, df |-> r.df, pattern |-> Some(pattern),
              score |-> Nothing, cache |-> r.cache, raised |-> FALSE,
              escaped |-> FALSE]

\* A slip: the candidates left in completion order.
SortByScoreLeftUnsorted(candidates) == candidates

\* final_candidates.sort(key=lambda x: x['score'], reverse=True): a stable
\* sort, the candidates of equal score keep their order.
RECURSIVE SortByScore(_)
SortByScore(candidates) ==
    IF candidates = << >> THEN << >>
    ELSE LET n == Len(candidates)
             x == candidates[n]
             sorted == SortByScore(SubSeq(candidates, 1, n - 1))
             k == Cardinality({i \in 1..Len(sorted) : sorted[i].score >= x.score})
         IN  SubSeq(sorted, 1, k) \o <<x>> \o SubSeq(sorted, k + 1, Len(sorted))

(***************************************************************************)
(* The scan specification: StockScanner.scan over the tickers the coarse   *)
(* filters let through.  Each worker runs analyze_single_ticker for one    *)
(* pending ticker, in any order (as_completed); when none is pending the   *)
(* candidates are ranked.  `market` gives, per ticker, what the provider   *)
(* answers.                                                                *)
(***************************************************************************)
ScanTickers == {"AAA", "BBB"}

Fit(converging, breaking_out, breaking_down, age, r2_high, compression) ==
    [is_converging |-> Some(converging), is_breaking_out |-> Some(breaking_out),
     is_breaking_down |-> Some(breaking_down), breakout_age |-> Some(age),
     breakout_strength |-> Some(2), r2_high |-> Some(r2_high),
     r2_low |-> Some(80), compression |-> Some(compression),
     selection_score |-> Nothing, used_window |-> Nothing,
     trendlines |-> Some([upper |-> Some(Line(-1, 200)),
                          lower |-> Some(Line(1, 100))])]

\* window -> the fit of that window; the windows left out have too few
\* extrema.
ScanFits ==
    { (60 :> Fit(TRUE, TRUE, FALSE, 1, 70, 5)) @@ (120 :> Fit(TRUE, TRUE, FALSE, 2, 80, 5)),
      (60 :> Fit(TRUE, TRUE, FALSE, 1, 90, 5)) @@ (120 :> Fit(TRUE, TRUE, FALSE, 2, 90, 8)),
      (60 :> Fit(TRUE, TRUE, FALSE, 1, 50, 5)) @@ (120 :> Fit(TRUE, TRUE, FALSE, 2, 60, 8)),
      (60 :> Fit(TRUE, TRUE, FALSE, 1, 70, 5)) @@ (120 :> Fit(TRUE, TRUE, FALSE, 2, 90, 8)),
      (60 :> Fit(TRUE, TRUE, FALSE, 1, 40, 5)),
      (120 :> Fit(TRUE, FALSE, FALSE, 0, 95, 5)),
      (60 :> Fit(FALSE, TRUE, FALSE, 1, 90, 50)),
      (120 :> Fit(TRUE, TRUE, TRUE, 1, 70, -20)),
      (200 :> Fit(TRUE, TRUE, FALSE, 2, 60, 5)),
      (40 :> InsufficientExtrema) }

ScanFeatures ==
    [has_volume : {TRUE}, recent_volume : {300}, avg_volume : {Some(100)},
     returns_empty : {FALSE}, annual_vol : {25}, fits : ScanFits, bars : {130},
     detector_raises : {FALSE}]
    \cup
    [has_volume : {TRUE}, recent_volume : {300}, avg_volume : {Some(100)},
     returns_empty : {FALSE}, annual_vol : {25},
     fits : {(200 :> Fit(TRUE, TRUE, FALSE, 2, 60, 5))}, bars : {250},
     detector_raises : BOOLEAN]

\* The provider raises, has nothing, has only an incomplete bar, or
\* answers with a frame.
ScanRawSet ==
    {[err |-> TRUE, rows |-> {}, cols |-> "ok", feat |-> Nothing],
     [err |-> FALSE, rows |-> {}, cols |-> "ok", feat |-> Nothing],
     [err |-> FALSE, rows |-> {Row(0, 1000, TRUE)}, cols |-> "ok", feat |-> Nothing]}
    \cup {[err |-> FALSE, rows |-> {Row(0, 1000, FALSE)}, cols |-> "ok",
           feat |-> Some(f)] : f \in ScanFeatures}

\* The cache before the scan: empty, or a fresh file for one ticker.
ScanCaches ==
    {<< >>,
     Put(<< >>, DefaultKey("AAA"),
         [readable |-> TRUE, mtime |-> 0,
          df |-> [rows |-> {Row(0, 1000, FALSE)}, cols |-> "ok",
                  feat |-> Some(CHOOSE f \in ScanFeatures : f.bars = 250)]])}

\* The defaults, and a freshness table with a negative entry.
ScanConfigs ==
    { DefaultScoring,
      [DefaultScoring EXCEPT !.breakout_age_scores = (1 :> -2000) @@ (2 :> 70)] }

\* visualization.top_n, a count (the default is 5).
TopNs == {0, 1, 2}

\* The list a run is handed: the tickers of `items` in the order of the
\* listing (scan(raw_candidates), analyze_all_reports(reports)).
Listing == <<"AAA", "BBB">>

InputOrder(items) == SelectSeq(Listing, LAMBDA tk : tk \in items)

InitScan ==
    /\ now = 0
    /\ cache \in ScanCaches
    /\ market \in [ScanTickers -> ScanRawSet]
    /\ calls = 0
    /\ \E raw_candidates \in SUBSET ScanTickers, cfg \in ScanConfigs,
          top_n \in TopNs, debug_mode \in BOOLEAN :
          /\ raw_candidates # {}
          /\ inp = [op |-> "scan", raw_candidates |-> raw_candidates, cfg |-> cfg,
                    top_n |-> top_n, debug_mode |-> debug_mode, before |-> cache]
          /\ out = [op |-> "scan", pending |-> raw_candidates, runs |-> << >>,
                    order |-> << >>, final_candidates |-> << >>,
                    ranked |-> FALSE, charted |-> << >>, aborted |-> FALSE]

\* One worker's future completes and the loop of lines 104-108 takes its
\* result.  An exception that left the worker is raised again by
\* future.result() and leaves scan: nothing is ranked.  scan has the one
\* path, through the process pool: it reads no debug_mode, and any pending
\* ticker may be the next to complete.
ScanWorker ==
    /\ inp.op = "scan"
    /\ ~out.aborted
    /\ \E ticker \in out.pending, wr \in WriteOutcomes :
          LET r == ScanAnalyzeSingleTicker(cache, now, ticker, inp.cfg,
                                           market[ticker], wr)
          IN  /\ out' = [out EXCEPT
                    !.pending = @ \ {ticker},
                    !.order = Append(@, ticker),
                    !.runs = Put(@, ticker,
                                 [candidate |-> r.candidate, df |-> r.df,
                                  pattern |-> r.pattern, score |-> r.score,
                                  wr |-> wr, raised |-> r.raised,
                                  escaped |-> r.escaped]),
                    !.final_candidates =
                        IF r.candidate # Nothing /\ ~r.escaped
                        THEN Append(@, r.candidate[1])
                        ELSE @,
                    !.aborted = r.escaped]
              /\ cache' = r.cache
    /\ calls' = calls + 1
    /\ UNCHANGED <<now, market, inp>>

\* _generate_outputs(candidates): create_chart is called on the first
\* top_n candidates in turn; `failing` is the call that raises (0: none
\* does), which ends the loop.  The result is the candidates create_chart
\* was called on.
GenerateOutputs(candidates, top_n, failing) ==
    LET n == Min(top_n, Len(candidates))
    IN  IF failing \in 1..n THEN SubSeq(candidates, 1, failing)
        ELSE SubSeq(candidates, 1, n)

\* Lines 110-115: the sort and the outputs, once every future has
\* completed.
ScanRank ==
    /\ inp.op = "scan"
    /\ out.pending = {}
    /\ ~out.aborted
    /\ ~out.ranked
    /\ \E failing \in 0..Cardinality(ScanTickers) :
          out' = [out EXCEPT
                     !.final_candidates = SortByScore(@),
                     !.ranked = TRUE,
                     !.charted = GenerateOutputs(SortByScore(out.final_candidates),
                                                 inp.top_n, failing)]
    /\ calls' = calls + 1
    /\ UNCHANGED <<now, cache, market, inp>>

NextScan == ScanWorker \/ ScanRank

SpecScan == InitScan /\ [][NextScan]_vars

\* C8: the scan worker invokes the scorer only when the detector's result
\* has is_breaking_out true and r2_high >= 0.5, and returns a candidate only
\* if the score is > 0; so every candidate that reaches the ranking has
\* is_breaking_out true, r2_high >= 0.5 and score > 0, and a ticker whose
\* fetch returned an empty series yields no candidate.
C8_CandidatesPassBothGates ==
    out.op = "scan" =>
        /\ \A ticker \in DOMAIN out.runs :
              LET r == out.runs[ticker]
              IN  /\ r.score # Nothing =>
                        /\ r.pattern # Nothing
                        /\ r.pattern[1].is_breaking_out = Some(TRUE)
                        /\ r.pattern[1].r2_high # Nothing
                        /\ r.pattern[1].r2_high[1] >= 50
                  /\ r.candidate # Nothing =>
                        /\ r.score # Nothing
                        /\ r.score[1] > 0
                        /\ r.candidate[1].score = r.score[1]
                  /\ r.df.rows = {} => r.candidate = Nothing /\ r.score = Nothing
        /\ \A i \in 1..Len(out.final_candidates) :
              LET x == out.final_candidates[i]
              IN  /\ x.pattern.is_breaking_out = Some(TRUE)
                  /\ x.pattern.r2_high[1] >= 50
                  /\ x.score > 0
                  /\ x.data.rows # {}
                  /\ x.ticker \in DOMAIN out.runs
                  /\ out.runs[x.ticker].candidate = Some(x)

\* A ranked scan: one ticker became a candidate; for the other the scorer
\* was invoked and its score was not above 0.
C8_Witness ==
    /\ out.op = "scan"
    /\ out.ranked
    /\ Len(out.final_candidates) = 1
    /\ \E ticker \in DOMAIN out.runs :
          /\ out.runs[ticker].score # Nothing
          /\ out.runs[ticker].score[1] <= 0
          /\ out.runs[ticker].candidate = Nothing

(***************************************************************************)
(* Two workers on one cache key (src/src/data_loader.py, lines 24-66 and   *)
(* 88-133; the pools of scanner.py and analyze_results.py run them).       *)
(*                                                                         *)
(* Nothing orders the workers' accesses to the file: no lock is taken and  *)
(* to_parquet writes in place.  A write is the open that truncates the     *)
(* file followed by one write per part of the file, in order: the column   *)
(* chunks and then the footer.  The file is modelled by the origin of each *)
(* of its parts: 0 for bytes not written, otherwise the version of the     *)
(* provider's data that the writer had downloaded.  A series is the pair   *)
(* of the origins of its two column chunks; the empty series is << >>.     *)
(* cache[key] is the file's parts; `market` is the version of the data the *)
(* provider holds; out[w] is the worker's position, the frame it holds,    *)
(* how far its write is, and the series its fetches returned.              *)
(***************************************************************************)
MaxFetches == 2

Workers == {1, 2}

RaceKey == DefaultKey("AAA")

\* Two column chunks and the footer.
FileParts == 3

DataVersions == {1, 2}

CompleteSeries(v) == <<v, v>>

\* open(cache_path, 'wb'): the file exists and is empty.
Truncated == [k \in 1..FileParts |-> 0]

\* pd.read_parquet on the file as it is: Nothing when it raises (parts are
\* missing).
ReadableParts(parts) == \A k \in 1..FileParts : parts[k] # 0

SeriesOf(parts) == <<parts[1], parts[2]>>

\* The parts of a file all written by one writer.
WrittenBy(parts) == parts[1] = parts[2] /\ parts[2] = parts[FileParts]

Goto(w, pc) == [out EXCEPT ![w].pc = pc]

Returns(w, series) ==
    [out EXCEPT ![w].pc = "idle", ![w].df = << >>, ![w].pos = 0,
                ![w].returned = Append(@, series)]

InitRace ==
    /\ now = 0
    /\ cache = << >>
    /\ market = 1
    /\ calls = 0
    /\ inp = [op |-> "race", key |-> RaceKey]
    /\ out = [w \in Workers |->
                 [pc |-> "idle", df |-> << >>, pos |-> 0, returned |-> << >>]]

\* The provider's data moves on between two downloads.
RemoteChanges ==
    /\ inp.op = "race"
    /\ market + 1 \in DataVersions
    /\ market' = market + 1
    /\ UNCHANGED <<now, cache, calls, inp, out>>

\* Lines 27 and 154-159: the file exists; no time passes during the race,
\* so a file that exists is younger than the limit.
CheckCacheValid(w) ==
    /\ inp.op = "race"
    /\ out[w].pc = "idle"
    /\ Len(out[w].returned) < MaxFetches
    /\ out' = Goto(w, IF RaceKey \in DOMAIN cache THEN "read" ELSE "download")
    /\ UNCHANGED <<now, cache, market, calls, inp>>

\* Lines 28-33.  A file with every part written by one writer reads as that
\* writer's series.  A file whose parts come from two writers is the
\* outcome of unordered writes: read_parquet raises or returns what the
\* parts hold.
ReadCache(w) ==
    /\ inp.op = "race"
    /\ out[w].pc = "read"
    /\ LET parts == cache[RaceKey]
       IN  \/ /\ ReadableParts(parts)
              /\ out' = Returns(w, SeriesOf(parts))
           \/ /\ ~ReadableParts(parts) \/ ~WrittenBy(parts)
              /\ out' = Goto(w, "download")
    /\ UNCHANGED <<now, cache, market, calls, inp>>

\* Lines 36-61: the download raises or is empty (the empty series is
\* returned), or answers with the provider's current data.
DownloadData(w) ==
    /\ inp.op = "race"
    /\ out[w].pc = "download"
    /\ \/ out' = Returns(w, << >>)
       \/ out' = [out EXCEPT ![w].pc = "open", ![w].df = CompleteSeries(market)]
    /\ calls' = calls + 1
    /\ UNCHANGED <<now, cache, market, inp>>

\* Line 64, first step of to_parquet.
OpenForWrite(w) ==
    /\ inp.op = "race"
    /\ out[w].pc = "open"
    /\ cache' = Put(cache, RaceKey, Truncated)
    /\ out' = [out EXCEPT ![w].pc = "write", ![w].pos = 1]
    /\ UNCHANGED <<now, market, calls, inp>>

\* Line 64, the next part written at the writer's own offset.
WritePart(w) ==
    /\ inp.op = "race"
    /\ out[w].pc = "write"
    /\ cache' = [cache EXCEPT ![RaceKey][out[w].pos] = out[w].df[1]]
    /\ out' = IF out[w].pos = FileParts
              THEN Goto(w, "return")
              ELSE [out EXCEPT ![w].pos = @ + 1]
    /\ UNCHANGED <<now, market, calls, inp>>

\* Line 66: the frame held in memory is returned.
ReturnDownloaded(w) ==
    /\ inp.op = "race"
    /\ out[w].pc = "return"
    /\ out' = Returns(w, out[w].df)
    /\ UNCHANGED <<now, cache, market, calls, inp>>

NextRace ==
    \/ RemoteChanges
    \/ \E w \in Workers : CheckCacheValid(w)
    \/ \E w \in Workers : ReadCache(w)
    \/ \E w \in Workers : DownloadData(w)
    \/ \E w \in Workers : OpenForWrite(w)
    \/ \E w \in Workers : WritePart(w)
    \/ \E w \in Workers : ReturnDownloaded(w)

SpecRace == InitRace /\ [][NextRace]_vars

\* C11: when two workers fetch the same cache key concurrently, every fetch
\* returns a complete series produced by one remote fetch for that key, or
\* the empty series; none returns a partially written or mixed series.
C11_FetchReturnsCompleteSeries ==
    inp.op = "race" =>
        \A w \in Workers : \A i \in 1..Len(out[w].returned) :
            \/ out[w].returned[i] = << >>
            \/ \E v \in DataVersions : out[w].returned[i] = CompleteSeries(v)

(***************************************************************************)
(* BacktestAnalyzer.analyze_all_reports                                    *)
(* (src/stock_scanner/analyze_results.py): one task per report, the        *)
(* results collected as the tasks complete, the dataset built when all     *)
(* have.  A report is [ticker, analysis_date, score, report_path].         *)
(***************************************************************************)
\* A slip: the task without its try/except.
BacktestTaskWithoutExcept(c, t, report, bt, mkt, mode, wr, fault) ==
    LET b == BacktestAnalyzeSingleTicker(c, t, report.ticker, report.analysis_date,
                 report.score, bt, report.report_path, mkt, mode, wr)
    IN  IF fault
        THEN [record |-> Nothing, cache |-> b.cache, raised |-> TRUE,
              escaped |-> TRUE]
        ELSE [record |-> b.record, cache |-> b.cache, raised |-> FALSE,
              escaped |-> FALSE]

\* analyze_single_ticker as a pool task.  fault: a statement of the try
\* block (lines 227-360) raises once the fetches are done; the handler of
\* lines 362-364 returns None.  raised: an exception was raised; escaped:
\* it reached the caller.
BacktestTask(c, t, report, bt, mkt, mode, wr, fault) ==
    LET b == BacktestAnalyzeSingleTicker(c, t, report.ticker, report.analysis_date,
                 report.score, bt, report.report_path, mkt, mode, wr)
    IN  IF fault
        THEN [record |-> Nothing, cache |-> b.cache, raised |-> TRUE,
              escaped |-> FALSE]
        ELSE [record |-> b.record, cache |-> b.cache, raised |-> FALSE,
              escaped |-> FALSE]

(***************************************************************************)
(* The backtest specification: analyze_all_reports over one report per     *)
(* ticker of BacktestTickers.                                              *)
(***************************************************************************)
BacktestTickers == {"AAA", "BBB"}

\* Saved on Friday (day 4) at 17:00 Eastern; saved on Tuesday (day 1) at
\* 10:15 Eastern; no path.
BacktestPaths ==
    { Some(Some(4 * MinutesPerDay + 21 * 60)),
      Some(Some(1 * MinutesPerDay + 14 * 60 + 15)),
      Nothing }

BacktestMarkets == {Market({}, {}), Market({-3, 4}, {})}

BacktestModes == {<<"ok", "ok">>, <<"error", "ok">>, <<"ok", "error">>}

BacktestWrites == {<<"ok", "ok">>, <<"refused", "ok">>}

InitBacktest ==
    /\ now = EntryNow
    /\ market \in BacktestMarkets
    /\ cache = << >>
    /\ calls = 0
    /\ \E paths \in [BacktestTickers -> BacktestPaths], debug_mode \in BOOLEAN :
          inp = [op |-> "backtest",
                 reports |-> [tk \in BacktestTickers |->
                                 [ticker |-> tk, analysis_date |-> 5,
                                  score |-> 8000, report_path |-> paths[tk]]],
                 debug_mode |-> debug_mode, before |-> cache]
    /\ out = [op |-> "backtest", pending |-> BacktestTickers, runs |-> << >>,
              order |-> << >>, results |-> << >>, dataset |-> Nothing,
              aborted |-> FALSE]

\* The reports whose analysis may be the next to end: in debug mode the
\* loop of lines 437-450 takes the reports one at a time in the order of
\* the list; otherwise (lines 456-477) every report is submitted to the
\* thread pool and any pending one may complete next.
RunnableReports(debug_mode, pending) ==
    IF debug_mode THEN {Head(InputOrder(pending))} ELSE pending

\* One task completes and the loop of lines 473-477 (in debug mode, of
\* lines 437-450) takes its result.  An exception that left the task is
\* raised again by future.result() (in debug mode, by the call itself) and
\* leaves analyze_all_reports: no dataset is built.
BacktestWorker ==
    /\ inp.op = "backtest"
    /\ ~out.aborted
    /\ out.pending # {}
    /\ \E id \in RunnableReports(inp.debug_mode, out.pending),
          mode \in BacktestModes, wr \in BacktestWrites, fault \in BOOLEAN :
          \E r \in {BacktestTask(cache, now, inp.reports[id], BacktestSettings,
                                 market, mode, wr, fault)} :
              /\ out' = [out EXCEPT
                    !.pending = @ \ {id},
                    !.order = Append(@, id),
                    !.runs = Put(@, id, [record |-> r.record, mode |-> mode,
                                         wr |-> wr, fault |-> fault,
                                         raised |-> r.raised,
                                         escaped |-> r.escaped]),
                    !.results = IF r.record # Nothing /\ ~r.escaped
                                THEN Append(@, r.record[1]) ELSE @,
                    !.aborted = r.escaped]
              /\ cache' = r.cache
    /\ calls' = calls + 1
    /\ UNCHANGED <<now, market, inp>>

\* Lines 479-484: pd.DataFrame(results), or the empty frame.
BuildDataset ==
    /\ inp.op = "backtest"
    /\ out.pending = {}
    /\ ~out.aborted
    /\ out.dataset = Nothing
    /\ out' = [out EXCEPT !.dataset = Some(out.results)]
    /\ calls' = calls + 1
    /\ UNCHANGED <<now, cache, market, inp>>

NextBacktest == BacktestWorker \/ BuildDataset

SpecBacktest == InitBacktest /\ [][NextBacktest]_vars

(***************************************************************************)
(* Containment of a failing item, in a run of either pipeline.             *)
(***************************************************************************)
InitPipelines == InitScan \/ InitBacktest

NextPipelines == NextScan \/ NextBacktest

SpecPipelines == InitPipelines /\ [][NextPipelines]_vars

\* In the scan: a run that raised gave no candidate and nothing left the
\* worker; every run is what the worker gives for that ticker alone from
\* the cache the scan started with; the ranking is of the candidates of
\* all the tickers.
ScanContains ==
    inp.op = "scan" =>
        /\ ~out.aborted
        /\ \A ticker \in DOMAIN out.runs :
              LET r == out.runs[ticker]
                  alone == ScanAnalyzeSingleTicker(inp.before, now, ticker,
                               inp.cfg, market[ticker], r.wr)
              IN  /\ r.raised => r.candidate = Nothing
                  /\ ~r.escaped
                  /\ r.candidate = alone.candidate
        /\ out.pending = {} => DOMAIN out.runs = inp.raw_candidates
        /\ out.ranked =>
              /\ DOMAIN out.runs = inp.raw_candidates
              /\ {out.final_candidates[i] : i \in 1..Len(out.final_candidates)}
                    = {out.runs[ticker].candidate[1] :
                          ticker \in {x \in DOMAIN out.runs :
                                         out.runs[x].candidate # Nothing}}

\* In the backtest: the same for the records and the dataset.
BacktestContains ==
    inp.op = "backtest" =>
        /\ ~out.aborted
        /\ \A id \in DOMAIN out.runs :
              LET r == out.runs[id]
                  alone == BacktestTask(inp.before, now, inp.reports[id],
                               BacktestSettings, market, r.mode, r.wr, r.fault)
              IN  /\ r.raised => r.record = Nothing
                  /\ ~r.escaped
                  /\ r.record = alone.record
                  /\ ~r.fault =>
                        r.record = BacktestAnalyzeSingleTicker(inp.before, now,
                                       inp.reports[id].ticker,
                                       inp.reports[id].analysis_date,
                                       inp.reports[id].score, BacktestSettings,
                                       inp.reports[id].report_path, market,
                                       r.mode, r.wr).record
        /\ out.dataset # Nothing =>
              /\ DOMAIN out.runs = DOMAIN inp.reports
              /\ {out.dataset[1][i] : i \in 1..Len(out.dataset[1])}
                    = {out.runs[id].record[1] :
                          id \in {x \in DOMAIN out.runs :
                                     out.runs[x].record # Nothing}}

\* C12: an exception raised while fetching, detecting or scoring one
\* ticker in the scan worker, or while evaluating one record in the
\* backtest worker, yields no result for that item only; the results of
\* the other items are unaffected and the run goes on to the ranking, or
\* to building the dataset.
C12_FailureIsContained == ScanContains /\ BacktestContains

\* A ranked scan in which the detector raised for one ticker and the other
\* ticker is a candidate.
C12_Witness ==
    /\ inp.op = "scan"
    /\ out.ranked
    /\ \E ticker \in DOMAIN out.runs : out.runs[ticker].raised
    /\ Len(out.final_candidates) = 1

\* C13: in scan the chart writer is invoked only after every submitted
\* per-ticker task has completed; it is invoked at most top_n times, on
\* candidates in non-increasing score order, and no candidate left out has
\* a score strictly greater than a charted one.
C13_ChartsAfterBarrierInRankOrder ==
    inp.op = "scan" =>
        /\ out.charted # << >> =>
              /\ out.pending = {}
              /\ DOMAIN out.runs = inp.raw_candidates
              /\ out.ranked
        /\ Len(out.charted) <= inp.top_n
        /\ \A i, j \in 1..Len(out.charted) :
              i < j => out.charted[i].score >= out.charted[j].score
        /\ out.ranked =>
              /\ \A i \in 1..Len(out.charted) :
                    out.charted[i] = out.final_candidates[i]
              /\ \A k \in (Len(out.charted) + 1)..Len(out.final_candidates) :
                    \A i \in 1..Len(out.charted) :
                        out.final_candidates[k].score <= out.charted[i].score

\* Two candidates of different scores; with top_n = 1 the higher one alone
\* was charted.
C13_Witness ==
    /\ inp.op = "scan"
    /\ out.ranked
    /\ inp.top_n = 1
    /\ Len(out.final_candidates) = 2
    /\ out.final_candidates[1].score > out.final_candidates[2].score
    /\ out.charted = <<out.final_candidates[1]>>

(***************************************************************************)
(* FilterEngine (src/src/filters.py).  What the filter reads of a ticker   *)
(* is its facts: listed, whether the batched download has a column group   *)
(* for it; bars, the rows of its frame after dropna (0: an empty frame);   *)
(* mcap, fast_info['marketCap'] in billions (Nothing: the lookup raises);  *)
(* close and sma, the last close and the last value of the moving average; *)
(* slope, the slope np.polyfit fits to the last 20 values of the           *)
(* normalised average, in thousandths (Nothing: polyfit raises).           *)
(***************************************************************************)
SmaPeriod == 150

SlopeWindow == 20

DefaultFilter ==
    [min_market_cap |-> 2, sma_period |-> SmaPeriod, slope_threshold |-> 0,
     batch_size |-> 2]

CheckMarketCap(cfg, f) == f.mcap # Nothing /\ f.mcap[1] >= cfg.min_market_cap

\* _process_ticker reaches np.polyfit and it raises.
ProcessTickerRaises(cfg, f) ==
    /\ f.bars >= cfg.sma_period + SlopeWindow
    /\ CheckMarketCap(cfg, f)
    /\ f.close > f.sma
    /\ f.slope = Nothing

\* _is_trend_bullish(df), when it returns.
IsTrendBullish(cfg, f) ==
    /\ f.bars - cfg.sma_period + 1 >= SlopeWindow
    /\ f.close > f.sma
    /\ f.slope # Nothing
    /\ f.slope[1] >= cfg.slope_threshold

\* _process_ticker(ticker, df), when it returns.
ProcessTicker(cfg, f) ==
    /\ f.bars # 0
    /\ f.bars >= cfg.sma_period + SlopeWindow
    /\ CheckMarketCap(cfg, f)
    /\ IsTrendBullish(cfg, f)

\* Lines 56-69, from the i-th ticker on: each ticker in its own try block.
RECURSIVE FilterWithStore(_, _, _, _)
FilterWithStore(cfg, tickers, facts, i) ==
    IF i > Len(tickers) THEN << >>
    ELSE LET f == facts[tickers[i]]
             rest == FilterWithStore(cfg, tickers, facts, i + 1)
         IN  IF ProcessTickerRaises(cfg, f) THEN rest
             ELSE IF ProcessTicker(cfg, f) THEN <<tickers[i]>> \o rest
             ELSE rest

\* The batch of the i-th ticker: tickers[k : k + batch_size].
BatchOf(cfg, i) == (i - 1) \div cfg.batch_size + 1

\* Lines 70-91, from the i-th ticker on: one try block around each batch.
\* failed: the batches whose download raises; left: the batch an exception
\* has ended (0: none).
RECURSIVE FilterInBatches(_, _, _, _, _, _)
FilterInBatches(cfg, tickers, facts, failed, i, left) ==
    IF i > Len(tickers) THEN << >>
    ELSE LET f == facts[tickers[i]]
             b == BatchOf(cfg, i)
         IN  IF b \in failed \/ b = left
             THEN FilterInBatches(cfg, tickers, facts, failed, i + 1, left)
             ELSE IF ~f.listed
             THEN FilterInBatches(cfg, tickers, facts, failed, i + 1, left)
             ELSE IF ProcessTickerRaises(cfg, f)
             THEN FilterInBatches(cfg, tickers, facts, failed, i + 1, b)
             ELSE IF ProcessTicker(cfg, f)
             THEN <<tickers[i]>>
                  \o FilterInBatches(cfg, tickers, facts, failed, i + 1, left)
             ELSE FilterInBatches(cfg, tickers, facts, failed, i + 1, left)

\* apply_coarse_filters(tickers).
ApplyCoarseFilters(cfg, use_cache, tickers, facts, failed) ==
    IF use_cache THEN FilterWithStore(cfg, tickers, facts, 1)
    ELSE FilterInBatches(cfg, tickers, facts, failed, 1, 0)

(***************************************************************************)
(* The filter specification: apply_coarse_filters applied to every list of *)
(* at most MaxTickers tickers, in both modes.                              *)
(***************************************************************************)
MaxTickers == 3

FilterTickers == {"AAA", "BBB", "CCC"}

PassingFacts ==
    [listed |-> TRUE, bars |-> SmaPeriod + SlopeWindow, mcap |-> Some(2),
     close |-> 101, sma |-> 100, slope |-> Some(0)]

\* Passing; one bar short; an empty frame; market cap unavailable; market
\* cap below the floor; the close at the average; a falling average;
\* polyfit raising; no column group in the batched download.
FilterFacts ==
    { PassingFacts,
      [PassingFacts EXCEPT !.bars = SmaPeriod + SlopeWindow - 1],
      [PassingFacts EXCEPT !.bars = 0],
      [PassingFacts EXCEPT !.mcap = Nothing],
      [PassingFacts EXCEPT !.mcap = Some(1)],
      [PassingFacts EXCEPT !.close = 100],
      [PassingFacts EXCEPT !.slope = Some(-1)],
      [PassingFacts EXCEPT !.slope = Nothing],
      [PassingFacts EXCEPT !.listed = FALSE] }

TickerLists ==
    UNION {[1..n -> FilterTickers] : n \in 0..MaxTickers}

InitFilter ==
    /\ now = 0
    /\ cache = << >>
    /\ market \in [FilterTickers -> FilterFacts]
    /\ calls = 0
    /\ \E use_cache \in BOOLEAN, tickers \in TickerLists,
          failed \in {{}, {1}} :
          /\ use_cache => failed = {}
          /\ inp = [op |-> "apply_coarse_filters", cfg |-> DefaultFilter,
                    use_cache |-> use_cache, tickers |-> tickers,
                    failed |-> failed]
    /\ out = Idle

CallApplyCoarseFilters ==
    /\ inp.op = "apply_coarse_filters"
    /\ out = Idle
    /\ out' = [op |-> "apply_coarse_filters",
               passed |-> ApplyCoarseFilters(inp.cfg, inp.use_cache, inp.tickers,
                                             market, inp.failed)]
    /\ calls' = calls + 1
    /\ UNCHANGED <<now, cache, market, inp>>

NextFilter == CallApplyCoarseFilters

SpecFilter == InitFilter /\ [][NextFilter]_vars

\* The i-th ticker of the input reached _process_ticker's data: in the
\* batched mode its batch was downloaded and holds a column group for it.
Obtained(i) ==
    \/ inp.use_cache
    \/ /\ BatchOf(inp.cfg, i) \notin inp.failed
       /\ market[inp.tickers[i]].listed

Passed(ticker) == \E k \in 1..Len(out.passed) : out.passed[k] = ticker

\* C14: an exception raised while one ticker is processed excludes that
\* ticker alone; every other ticker of the input, the tickers that follow it
\* in the same batch of the batched mode included, is still evaluated: it is
\* returned when it meets the criteria.
C14_ExceptionExcludesOnlyThatTicker ==
    out.op = "apply_coarse_filters" =>
        \A i \in 1..Len(inp.tickers) :
            (Obtained(i) /\ ProcessTicker(inp.cfg, market[inp.tickers[i]]))
                => Passed(inp.tickers[i])

\* The four criteria, on the data the filter obtained for the i-th ticker.
MeetsCriteria(i) ==
    LET f == market[inp.tickers[i]]
    IN  /\ Obtained(i)
        /\ f.bars >= inp.cfg.sma_period + SlopeWindow
        /\ f.mcap # Nothing /\ f.mcap[1] >= inp.cfg.min_market_cap
        /\ f.close > f.sma
        /\ f.slope # Nothing /\ f.slope[1] >= inp.cfg.slope_threshold

\* The tickers of the input from the i-th on that meet the criteria, in the
\* order of the input.
RECURSIVE TickersMeetingCriteria(_)
TickersMeetingCriteria(i) ==
    IF i > Len(inp.tickers) THEN << >>
    ELSE (IF MeetsCriteria(i) THEN <<inp.tickers[i]>> ELSE << >>)
         \o TickersMeetingCriteria(i + 1)

\* C19: apply_coarse_filters returns a subsequence of its input holding
\* exactly the tickers with at least sma_period + 20 bars, a market cap that
\* is available and at least min_market_cap, a last close strictly above the
\* last moving average, and a normalised slope of at least the threshold.
C19_ReturnsExactlyTheTickersMeetingCriteria ==
    out.op = "apply_coarse_filters" => out.passed = TickersMeetingCriteria(1)

(***************************************************************************)
(* PatternDetector._find_pattern_in_window (src/src/detector.py), computed *)
(* from a slice: the extrema argrelextrema finds in High and in Low, each a *)
(* chronological sequence of points [idx, value] with idx counted from 0,   *)
(* and the closes of the window.  Prices are in tenths.                     *)
(***************************************************************************)
DefaultDetector ==
    [order |-> 5, min_points |-> 3, convergence_threshold |-> 10,
     breakout_min_days |-> 1, breakout_max_days |-> 2,
     breakdown_confirm_days |-> 2]

Point(idx, value) == [idx |-> idx, value |-> value]

\* current_order of line 45.
CurrentOrder(det, window) ==
    Max(3, IF window > 100 THEN det.order ELSE det.order - 2)

\* sorted(indices, key=values, reverse=is_high): a stable sort, strongest
\* first.
RECURSIVE SortByStrength(_, _)
SortByStrength(points, is_high) ==
    IF points = << >> THEN << >>
    ELSE LET n == Len(points)
             last == points[n]
             before == SortByStrength(SubSeq(points, 1, n - 1), is_high)
             ahead(p) == IF is_high THEN p.value >= last.value
                         ELSE p.value <= last.value
             k == Cardinality({i \in 1..Len(before) : ahead(before[i])})
         IN  SubSeq(before, 1, k) \o <<last>> \o SubSeq(before, k + 1, Len(before))

\* The loop of lines 167-170 over sorted[k..]: the indices kept.
RECURSIVE KeepFarApart(_, _, _, _)
KeepFarApart(sorted, k, filtered, min_dist) ==
    IF k > Len(sorted) THEN filtered
    ELSE LET idx == sorted[k].idx
             far == \A f \in filtered :
                        (IF idx >= f THEN idx - f ELSE f - idx) > min_dist
         IN  KeepFarApart(sorted, k + 1,
                          IF far THEN filtered \cup {idx} ELSE filtered, min_dist)

\* _filter_significant_extrema(indices, values, is_high), self.order being
\* the window's order.
FilterSignificantExtrema(det, order, points, is_high) ==
    IF Len(points) <= det.min_points THEN points
    ELSE LET kept == KeepFarApart(SortByStrength(points, is_high), 1, {},
                                  order * 2)
         IN  SelectSeq(points, LAMBDA p : p.idx \in kept)

\* Ten times np.percentile(values, 30), linear interpolation between the
\* two nearest ranks.
TenTimesPercentile30(points) ==
    LET asc == SortByStrength(points, FALSE)
        n == Len(asc)
        lo == (3 * (n - 1)) \div 10
        frac == (3 * (n - 1)) % 10
    IN  IF frac = 0 THEN 10 * asc[lo + 1].value
        ELSE 10 * asc[lo + 1].value
             + frac * (asc[lo + 2].value - asc[lo + 1].value)

\* Lines 85-90: the highs at or above the 30th percentile.
KeepHighest(det, points) ==
    IF Len(points) > det.min_points
    THEN SelectSeq(points,
                   LAMBDA p : 10 * p.value >= TenTimesPercentile30(points))
    ELSE points

\* The points lie on one line of whole slope.
Collinear(points) ==
    /\ Len(points) >= 2
    /\ \A i \in 2..Len(points) :
          (points[i].value - points[1].value) * (points[2].idx - points[1].idx)
          = (points[2].value - points[1].value) * (points[i].idx - points[1].idx)
    /\ (points[2].value - points[1].value) % (points[2].idx - points[1].idx) = 0

\* LinearRegression().fit on collinear points: least squares, weighted or
\* not, gives the line through them.
FitLine(points) ==
    LET slope == (points[2].value - points[1].value)
                 \div (points[2].idx - points[1].idx)
    IN  Line(slope, points[1].value - slope * points[1].idx)

\* A slip: every close above the line counted, not the trailing run.
RECURSIVE CountAbove(_, _, _)
CountAbove(prices, upper, i) ==
    IF i = 0 THEN 0
    ELSE (IF prices[i] > LineAt(upper, i - 1) THEN 1 ELSE 0)
         + CountAbove(prices, upper, i - 1)

\* The loop of lines 124-129 from the i-th close downwards.
RECURSIVE ConsecutiveAbove(_, _, _)
ConsecutiveAbove(prices, upper, i) ==
    IF i = 0 THEN 0
    ELSE IF prices[i] > LineAt(upper, i - 1)
    THEN 1 + ConsecutiveAbove(prices, upper, i - 1)
    ELSE 0

\* The ratio taken whenever the division can be made.
CompressionOfAnyGap(upper, lower, first_extrema_idx, last) ==
    LET dist_start == LineAt(upper, first_extrema_idx)
                      - LineAt(lower, first_extrema_idx)
        dist_end == LineAt(upper, last) - LineAt(lower, last)
    IN  IF dist_start # 0 THEN (dist_end * 100) \div dist_start ELSE 100

\* Lines 113-117, in hundredths rounded down.
Compression(upper, lower, first_extrema_idx, last) ==
    LET dist_start == LineAt(upper, first_extrema_idx)
                      - LineAt(lower, first_extrema_idx)
        dist_end == LineAt(upper, last) - LineAt(lower, last)
    IN  IF dist_start > 0 THEN (dist_end * 100) \div dist_start ELSE 100

\* compression < convergence_threshold, on the exact ratio.
Compressed(det, upper, lower, first_extrema_idx, last) ==
    LET dist_start == LineAt(upper, first_extrema_idx)
                      - LineAt(lower, first_extrema_idx)
        dist_end == LineAt(upper, last) - LineAt(lower, last)
    IN  IF dist_start > 0
        THEN dist_end * 100 < det.convergence_threshold * dist_start
        ELSE 100 < det.convergence_threshold

\* _find_pattern_in_window(df_slice) for a slice of `window` bars.
PatternOfSlice(det, window, slice) ==
    LET order == CurrentOrder(det, window)
        high_idx == KeepHighest(det,
                        FilterSignificantExtrema(det, order, slice.high, TRUE))
        low_idx == FilterSignificantExtrema(det, order, slice.low, FALSE)
        prices == slice.closes
        n == Len(prices)
        upper == FitLine(high_idx)
        lower == FitLine(low_idx)
        first_extrema_idx == Min(high_idx[1].idx, low_idx[1].idx)
        consecutive_above == ConsecutiveAbove(prices, upper, n)
        confirm_days == Min(n, Max(1, det.breakdown_confirm_days))
    IN  IF Len(high_idx) < det.min_points \/ Len(low_idx) < det.min_points
        THEN InsufficientExtrema
        ELSE [is_converging |->
                  Some(/\ upper.slope < lower.slope
                       /\ Compressed(det, upper, lower, first_extrema_idx, n - 1)),
              is_breaking_out |->
                  Some(/\ det.breakout_min_days <= consecutive_above
                       /\ consecutive_above <= det.breakout_max_days),
              is_breaking_down |->
                  Some(\A offset \in 1..confirm_days :
                          prices[n - offset + 1] < LineAt(lower, n - offset)),
              breakout_age |-> Some(consecutive_above),
              breakout_strength |->
                  Some(((prices[n] - LineAt(upper, n - 1)) * 100)
                       \div LineAt(upper, n - 1)),
              r2_high |-> Some(100), r2_low |-> Some(100),
              compression |->
                  Some(Compression(upper, lower, first_extrema_idx, n - 1)),
              selection_score |-> Nothing, used_window |-> Nothing,
              trendlines |-> Some([upper |-> Some(upper), lower |-> Some(lower)])]

(***************************************************************************)
(* The detector specification: analyze_convergence applied to a series.    *)
(* A series gives its number of bars, the extrema of High and of Low (each *)
(* `back` bars before the last bar, oldest first), and its closes: `base`  *)
(* on every bar but the last three, whose closes are `tail`.  The extrema  *)
(* of each side lie on one line and none lies at the edge of a window.     *)
(***************************************************************************)
DetectorBars == {39, 40, 50}

Extremum(back, value) == [back |-> back, value |-> value]

\* On 1050 - 10 x (x counted in the last 40 bars): three highs; four highs,
\* the last the lowest; two highs; highs too near each other; a high that
\* only the 50-bar window sees.  On 675 + 5 x: three rising highs.
SeriesHighs ==
    { <<Extremum(34, 1000), Extremum(24, 900), Extremum(14, 800)>>,
      <<Extremum(34, 1000), Extremum(24, 900), Extremum(14, 800),
        Extremum(6, 720)>>,
      <<Extremum(34, 1000), Extremum(24, 900)>>,
      <<Extremum(34, 1000), Extremum(30, 960), Extremum(24, 900),
        Extremum(14, 800)>>,
      <<Extremum(44, 1100), Extremum(34, 1000), Extremum(24, 900),
        Extremum(14, 800)>>,
      <<Extremum(34, 700), Extremum(24, 750), Extremum(14, 800)>> }

\* Three lows on 450 + 6 x, which meets 1050 - 10 x before the last bar; on
\* 440 + 5 x, which stays below it; on 500 - 10 x, parallel to it; and two
\* lows.  On 687 + x and on 689 + x, early lows before which 675 + 5 x lies
\* on or below the line of the lows.
SeriesLows ==
    { <<Extremum(29, 510), Extremum(19, 570), Extremum(9, 630)>>,
      <<Extremum(36, 690), Extremum(26, 700), Extremum(16, 710)>>,
      <<Extremum(36, 692), Extremum(26, 702), Extremum(16, 712)>>,
      <<Extremum(29, 490), Extremum(19, 540), Extremum(9, 590)>>,
      <<Extremum(29, 400), Extremum(19, 300), Extremum(9, 200)>>,
      <<Extremum(29, 510), Extremum(19, 570)>> }

SeriesBases == {640, 900}

TailLength == 3

SeriesTails == [1..TailLength -> {620, 665, 690}]


\* The breakout window of the defaults, and a later one.
DetectorConfigs ==
    { DefaultDetector,
      [DefaultDetector EXCEPT !.breakout_min_days = 2, !.breakout_max_days = 3] }

\* The extrema of the last `window` bars, idx counted from the slice's
\* first bar.
ExtremaOfSlice(extrema, window) ==
    LET inside == SelectSeq(extrema, LAMBDA q : q.back < window)
    IN  [i \in 1..Len(inside) |->
            Point(window - 1 - inside[i].back, inside[i].value)]

SeriesSet ==
    {s \in [bars : DetectorBars, high : SeriesHighs, low : SeriesLows,
            base : SeriesBases, tail : SeriesTails] :
        /\ Collinear(ExtremaOfSlice(s.high, 50))
        /\ Collinear(ExtremaOfSlice(s.low, 50))}

\* df.tail(window) of line 42.
SliceOf(series, window) ==
    [high |-> ExtremaOfSlice(series.high, window),
     low |-> ExtremaOfSlice(series.low, window),
     closes |-> [i \in 1..window |->
                    IF i <= window - TailLength THEN series.base
                    ELSE series.tail[i - (window - TailLength)]]]

\* The windows line 40 does not skip.
UsableWindows(bars) == {w \in AdaptiveWindows : bars >= w}

\* The frame of a series: for each usable window, what
\* _find_pattern_in_window gives on its slice.
FrameOf(det, series) ==
    [feat |-> Some([bars |-> series.bars,
                    fits |-> [w \in UsableWindows(series.bars) |->
                                 PatternOfSlice(det, w, SliceOf(series, w))],
                    detector_raises |-> FALSE])]

InitDetector ==
    /\ now = 0
    /\ cache = << >>
    /\ market \in SeriesSet
    /\ calls = 0
    /\ \E det \in DetectorConfigs :
          inp = [op |-> "analyze_convergence", det |-> det]
    /\ out = Idle

CallAnalyzeConvergence ==
    /\ inp.op = "analyze_convergence"
    /\ out = Idle
    /\ LET df == FrameOf(inp.det, market)
       IN  out' = [op |-> "analyze_convergence",
                   windows |-> df.feat[1].fits,
                   result |-> AnalyzeConvergence(df)]
    /\ calls' = calls + 1
    /\ UNCHANGED <<now, cache, market, inp>>

NextDetector == CallAnalyzeConvergence

SpecDetector == InitDetector /\ [][NextDetector]_vars

\* The call has returned.
Analyzed == out.op = "analyze_convergence"

\* The windows in which both trendlines were fitted.
FittedWindows == {w \in DOMAIN out.windows : out.windows[w].trendlines # Nothing}

\* The number of consecutive most-recent closes of the window strictly above
\* its upper trendline.
TrailingRun(w) ==
    LET closes == SliceOf(market, w).closes
        upper == out.windows[w].trendlines[1].upper[1]
        above(k) == \A j \in 1..k : closes[w - j + 1] > LineAt(upper, w - j)
    IN  CHOOSE k \in 0..w : above(k) /\ (k < w => ~above(k + 1))

InBreakoutRange(age) ==
    inp.det.breakout_min_days <= age /\ age <= inp.det.breakout_max_days

\* C15, as stated of the result analyze_convergence returns for the series:
\* one trailing close above the fitted upper trendline gives is_breaking_out
\* and breakout_age 1; three of them with breakout_max_days = 2 give no
\* breakout and breakout_age 3.
C15_AsStated ==
    Analyzed =>
        \A w \in FittedWindows :
            DOMAIN out.windows = {w} =>
                /\ (TrailingRun(w) = 1 /\ InBreakoutRange(1))
                       => /\ out.result.is_breaking_out = Some(TRUE)
                          /\ out.result.breakout_age = Some(1)
                /\ (TrailingRun(w) = 3 /\ inp.det.breakout_max_days = 2)
                       => /\ out.result.is_breaking_out = Some(FALSE)
                          /\ out.result.breakout_age = Some(3)

\* C15, amended: in the result of every window whose trendlines were fitted,
\* breakout_age is the number of consecutive most-recent closes strictly
\* above the window's upper trendline and is_breaking_out holds iff
\* breakout_min_days <= breakout_age <= breakout_max_days; the result
\* analyze_convergence returns is that of a window which is breaking out, or
\* the empty result with is_breaking_out false and breakout_age 0.
C15_WindowAgeIsTrailingRun ==
    Analyzed =>
        /\ \A w \in FittedWindows :
              /\ out.windows[w].breakout_age = Some(TrailingRun(w))
              /\ out.windows[w].is_breaking_out
                     = Some(InBreakoutRange(TrailingRun(w)))
        /\ IF out.result.used_window = Nothing
           THEN /\ out.result.is_breaking_out = Some(FALSE)
                /\ out.result.breakout_age = Some(0)
           ELSE LET w == out.result.used_window[1]
                IN  /\ w \in FittedWindows
                    /\ out.result.breakout_age = Some(TrailingRun(w))
                    /\ InBreakoutRange(TrailingRun(w))
                    /\ out.result.is_breaking_out = Some(TRUE)

\* Three trailing closes above the line with breakout_max_days = 2: the
\* window's result has breakout_age 3 and no breakout, and the returned
\* result is the empty one.
C15_Witness ==
    /\ Analyzed
    /\ inp.det.breakout_max_days = 2
    /\ \E w \in FittedWindows :
          /\ TrailingRun(w) = 3
          /\ out.windows[w].breakout_age = Some(3)
          /\ out.windows[w].is_breaking_out = Some(FALSE)
          /\ out.windows[w].is_converging = Some(TRUE)
    /\ out.result.breakout_age = Some(0)

\* C16: every pattern the detector produces has compression >= 0, in every
\* window and for every pair of fitted trendlines, the returned one included.
C16_CompressionNonNegative ==
    Analyzed =>
        /\ \A w \in FittedWindows : out.windows[w].compression[1] >= 0
        /\ out.result.compression # Nothing => out.result.compression[1] >= 0

\* The windows whose result is both converging and breaking out.
QualifyingWindows ==
    {w \in DOMAIN out.windows : /\ out.windows[w].is_converging = Some(TRUE)
                                /\ out.windows[w].is_breaking_out = Some(TRUE)}

\* Not converging, not breaking out, no trendlines.
IsNoPattern(result) ==
    /\ result.is_converging = Some(FALSE)
    /\ result.is_breaking_out = Some(FALSE)
    /\ result.trendlines = Some([upper |-> Nothing, lower |-> Nothing])

\* C17: analyze_convergence returns the NoPattern result when the series
\* has fewer than 40 bars, when no examined window keeps min_points highs
\* and min_points lows after filtering, or when no examined window is both
\* converging and breaking out.
C17_NoPatternWhenNothingQualifies ==
    Analyzed =>
        /\ market.bars < 40 => IsNoPattern(out.result)
        /\ FittedWindows = {} => IsNoPattern(out.result)
        /\ QualifyingWindows = {} => IsNoPattern(out.result)

\* A window with fitted trendlines breaks out without converging, no window
\* does both, and the empty result was returned.
C17_Witness ==
    /\ Analyzed
    /\ \E w \in FittedWindows :
          /\ out.windows[w].is_breaking_out = Some(TRUE)
          /\ out.windows[w].is_converging = Some(FALSE)
    /\ QualifyingWindows = {}
    /\ IsNoPattern(out.result)

(***************************************************************************)
(* BacktestAnalyzer.generate_summary (analyze_results.py): the overall     *)
(* statistics of a dataset, given as the sequence of its rows' outcomes.   *)
(* hit_rate is the figure the summary prints, in hundredths of a percent.  *)
(***************************************************************************)
Count(df, outcome) == Cardinality({i \in 1..Len(df) : df[i] = outcome})

\* A slip: the hit rate taken over all signals, the pending ones included.
GenerateSummaryOverAllSignals(df) ==
    IF df = << >> THEN [no_data |-> TRUE, hit_rate |-> Nothing]
    ELSE LET success_count == Count(df, "Success")
         IN  [no_data |-> FALSE,
              hit_rate |-> Some(RoundHalfEven(success_count * 100 * 100, Len(df)))]

\* generate_summary(df), lines 495-504 and the line that prints hit_rate.
GenerateSummary(df) ==
    IF df = << >> THEN [no_data |-> TRUE, hit_rate |-> Nothing]
    ELSE LET success_count == Count(df, "Success")
             failure_count == Count(df, "Failure")
         IN  [no_data |-> FALSE,
              hit_rate |->
                  Some(IF success_count + failure_count > 0
                       THEN RoundHalfEven(success_count * 100 * 100,
                                          success_count + failure_count)
                       ELSE 0)]

(***************************************************************************)
(* The summary specification: generate_summary applied to every dataset of *)
(* at most MaxRecords rows.                                                *)
(***************************************************************************)
MaxRecords == 4

Outcomes == {"Success", "Failure", "Pending"}

Datasets == UNION {[1..n -> Outcomes] : n \in 0..MaxRecords}

InitSummary ==
    /\ now = 0
    /\ cache = << >>
    /\ market \in Datasets
    /\ calls = 0
    /\ inp = [op |-> "generate_summary"]
    /\ out = Idle

CallGenerateSummary ==
    /\ inp.op = "generate_summary"
    /\ out = Idle
    /\ out' = [op |-> "generate_summary", summary |-> GenerateSummary(market)]
    /\ calls' = calls + 1
    /\ UNCHANGED <<now, cache, market, inp>>

NextSummary == CallGenerateSummary

SpecSummary == InitSummary /\ [][NextSummary]_vars

\* The dataset's N, M and K.
Successes == Cardinality({i \in DOMAIN market : market[i] = "Success"})

Failures == Cardinality({i \in DOMAIN market : market[i] = "Failure"})

Pendings == Cardinality({i \in DOMAIN market : market[i] = "Pending"})

\* C18: with N Success, M Failure and K Pending rows and N + M > 0 the hit
\* rate of the summary is N / (N + M) as a percentage (printed to the
\* nearest hundredth), whatever K is; with N + M = 0 it is 0, and a dataset
\* without rows is answered with the no-data summary.
C18_HitRateIgnoresPending ==
    out.op = "generate_summary" =>
        IF market = << >>
        THEN out.summary.no_data /\ out.summary.hit_rate = Nothing
        ELSE LET rate == out.summary.hit_rate[1]
                 completed == Successes + Failures
                 off == rate * completed - Successes * 100 * 100
             IN  /\ ~out.summary.no_data
                 /\ out.summary.hit_rate # Nothing
                 /\ completed > 0 => 2 * off <= completed /\ -2 * off <= completed
                 /\ completed = 0 => rate = 0

\* One success, two failures and a pending row: 33.33 percent.
C18_Witness ==
    /\ out.op = "generate_summary"
    /\ Successes = 1 /\ Failures = 2 /\ Pendings = 1
    /\ out.summary.hit_rate = Some(3333)

(***************************************************************************)
(* The name create_chart gives a chart (src/src/visualizer.py) and          *)
(* parse_filename (analyze_results.py), which reads it back.  A string is   *)
(* the sequence of its characters; a date is <<year, month, day>>; a score  *)
(* is in hundredths.                                                        *)
(***************************************************************************)
Letters == {"A", "B"}

DigitChars == <<"0", "1", "2", "3", "4", "5", "6", "7", "8", "9">>

IsDigit(c) == \E n \in 1..10 : DigitChars[n] = c

DigitValue(c) == (CHOOSE n \in 1..10 : DigitChars[n] = c) - 1

\* n with at least `width` digits, zero-padded ('%Y', '%m', '%d').
RECURSIVE Padded(_, _)
Padded(n, width) ==
    IF n < 10 /\ width <= 1 THEN <<DigitChars[n + 1]>>
    ELSE Padded(n \div 10, width - 1) \o <<DigitChars[(n % 10) + 1]>>

\* int(text) for a run of digits.
RECURSIVE Number(_)
Number(digits) ==
    IF digits = << >> THEN 0
    ELSE 10 * Number(SubSeq(digits, 1, Len(digits) - 1))
         + DigitValue(digits[Len(digits)])

\* str.replace(".", "-", regex=False) of the ticker provider.
ReplaceDots(symbol) ==
    [i \in 1..Len(symbol) |-> IF symbol[i] = "." THEN "-" ELSE symbol[i]]

\* strftime('%Y-%m-%d').
FormatDate(date) ==
    Padded(date[1], 4) \o <<"-">> \o Padded(date[2], 2) \o <<"-">>
    \o Padded(date[3], 2)

\* f"{ticker}_{today_str}_score_{int(score)}.html" of line 159.
ChartFilename(ticker, today, score) ==
    ticker \o <<"_">> \o FormatDate(today) \o <<"_", "s", "c", "o", "r", "e", "_">>
    \o Padded(score \div 100, 1) \o <<".", "h", "t", "m", "l">>

IsUpper(c) == c \in Letters

\* What the greedy [A-Z]+ takes from position `from` on: the length of the
\* longest run of letters.
UpperRun(text, from) ==
    CHOOSE k \in 0..(Len(text) - from + 1) :
        /\ \A j \in 0..(k - 1) : IsUpper(text[from + j])
        /\ from + k <= Len(text) => ~IsUpper(text[from + k])

\* What the greedy \d+ takes from position `from` on.
DigitRun(text, from) ==
    CHOOSE k \in 0..(Len(text) - from + 1) :
        /\ \A j \in 0..(k - 1) : IsDigit(text[from + j])
        /\ from + k <= Len(text) => ~IsDigit(text[from + k])

\* text[from ..] starts with `word`.
StartsWith(text, from, word) ==
    /\ from + Len(word) - 1 <= Len(text)
    /\ SubSeq(text, from, from + Len(word) - 1) = word

DaysInMonth(year, month) ==
    IF month = 2
    THEN (IF year % 4 = 0 /\ (year % 100 # 0 \/ year % 400 = 0) THEN 29 ELSE 28)
    ELSE IF month \in {4, 6, 9, 11} THEN 30 ELSE 31

\* parse_filename(filename): Nothing for None.
ParseFilename(filename) ==
    LET k == UpperRun(filename, 1)
        date_at == k + 2
        score_at == date_at + 10 + 7
        n == IF score_at <= Len(filename) THEN DigitRun(filename, score_at)
             ELSE 0
        is_date == /\ date_at + 9 <= Len(filename)
                   /\ \A j \in {0, 1, 2, 3, 5, 6, 8, 9} : IsDigit(filename[date_at + j])
                   /\ filename[date_at + 4] = "-"
                   /\ filename[date_at + 7] = "-"
        matches == /\ k >= 1
                   /\ StartsWith(filename, k + 1, <<"_">>)
                   /\ is_date
                   /\ StartsWith(filename, date_at + 10,
                                 <<"_", "s", "c", "o", "r", "e", "_">>)
                   /\ n >= 1
                   /\ StartsWith(filename, score_at + n, <<".", "h", "t", "m", "l">>)
                   /\ score_at + n + 4 = Len(filename)
        year == Number(SubSeq(filename, date_at, date_at + 3))
        month == Number(SubSeq(filename, date_at + 5, date_at + 6))
        day == Number(SubSeq(filename, date_at + 8, date_at + 9))
    IN  IF ~matches THEN Nothing
        ELSE IF year < 1 \/ month \notin 1..12
                \/ day \notin 1..DaysInMonth(year, month)
        THEN Nothing
        ELSE Some([ticker |-> SubSeq(filename, 1, k),
                   analysis_date |-> <<year, month, day>>,
                   score |-> Number(SubSeq(filename, score_at, score_at + n - 1))])

(***************************************************************************)
(* The report-name specification: a candidate of the scan is charted and   *)
(* the backtest reads the chart's name.  The ticker is a symbol of the     *)
(* universe: a listed symbol of at most MaxSymbol characters with its dots *)
(* replaced.                                                               *)
(***************************************************************************)
MaxSymbol == 3

ListedSymbols ==
    {sym \in UNION {[1..n -> Letters \cup {"."}] : n \in 1..MaxSymbol} :
        sym[1] # "." /\ sym[Len(sym)] # "."}

Universe == {ReplaceDots(sym) : sym \in ListedSymbols}

ChartDates == {<<2026, 1, 5>>, <<2026, 10, 26>>, <<2028, 2, 29>>}

\* Scores of candidates: above 0 and at most 100.
ChartScores == {50, 725, 8137, 100 * 100}

InitReportName ==
    /\ now = 0
    /\ cache = << >>
    /\ market = << >>
    /\ calls = 0
    /\ \E ticker \in Universe, today \in ChartDates, score \in ChartScores :
          inp = [op |-> "create_chart", ticker |-> ticker, today |-> today,
                 score |-> score]
    /\ out = Idle

CreateChart ==
    /\ inp.op = "create_chart"
    /\ out = Idle
    /\ out' = [op |-> "create_chart",
               filename |-> ChartFilename(inp.ticker, inp.today, inp.score)]
    /\ calls' = calls + 1
    /\ UNCHANGED <<now, cache, market, inp>>

CallParseFilename ==
    /\ out.op = "create_chart"
    /\ out' = [op |-> "parse_filename", filename |-> out.filename,
               parsed |-> ParseFilename(out.filename)]
    /\ calls' = calls + 1
    /\ UNCHANGED <<now, cache, market, inp>>

NextReportName == CreateChart \/ CallParseFilename

SpecReportName == InitReportName /\ [][NextReportName]_vars

\* C20: parse_filename applied to the name create_chart gave the chart of a
\* candidate (T, D, S) returns ticker T, analysis_date D and score int(S),
\* for every symbol T of the universe.
C20_ParseInvertsChartName ==
    out.op = "parse_filename" =>
        out.parsed = Some([ticker |-> inp.ticker, analysis_date |-> inp.today,
                           score |-> inp.score \div 100])

(***************************************************************************)
(* What a run writes to the log about one item: the warnings and errors of *)
(* fetch_historical_data, of the scan worker and the loop that collects    *)
(* its result, and of the backtest's analyze_single_ticker.                *)
(***************************************************************************)
\* logger.warning / logger.error of fetch_historical_data, lines 28-70.
FetchReasons(c, t, ticker, raw, wr) ==
    LET cache_path == DefaultKey(ticker)
        valid == IsCacheValid(c, cache_path, t)
        hit == /\ valid
               /\ CacheReadable(c, cache_path)
               /\ ~IsEmpty(ReadParquet(c, cache_path))
    IN  (IF valid /\ ~CacheReadable(c, cache_path)
         THEN {"Could not read cache"} ELSE {})
        \cup (IF hit THEN {}
              ELSE IF raw.err THEN {"Error fetching"}
              ELSE IF IsEmpty(raw) THEN {"No data returned"}
              ELSE IF NormalizeRaises(raw) \/ wr # "ok" THEN {"Error fetching"}
              ELSE {})

\* The entries about `ticker` of the scan: those of the fetch, none in the
\* worker (its handler of lines 56-58 returns None without logging), and
\* the loop's entry for a candidate (line 109).
ScanReasons(c, t, ticker, cfg, raw, wr) ==
    FetchReasons(c, t, ticker, raw, wr)
    \cup (IF ScanAnalyzeSingleTicker(c, t, ticker, cfg, raw, wr).candidate # Nothing
          THEN {"Found valid pattern"} ELSE {})

\* The warning or error with which the backtest's analyze_single_ticker
\* returns None (lines 234, 247, 260, 270, 278, 363); {} when it returns a
\* record.
BacktestReasons(c, t, report, bt, mkt, mode, wr, fault) ==
    LET b == BacktestAnalyzeSingleTicker(c, t, report.ticker, report.analysis_date,
                 report.score, bt, report.report_path, mkt, mode, wr)
        start_date == Midnight(report.analysis_date - ContextDays)
        df == FetchHistoricalDataRange(c, t, report.ticker, start_date, t,
                  Download(mkt, mode[1], start_date, t), wr[1]).df
    IN  IF IsEmpty(df) THEN {"No historical data available"}
        ELSE IF b.entry # Nothing /\ b.entry[1].entry_price = Nothing
        THEN {b.entry[1].info.error}
        ELSE IF b.entry = Nothing /\ {x \in df.rows : x.date <= report.analysis_date} = {}
        THEN {"No data available on or before"}
        ELSE IF b.record = Nothing THEN {"No data in performance window"}
        ELSE IF fault THEN {"Error in analysis"}
        ELSE {}

\* C21: every ticker skipped in a scan because its worker raised or found
\* no data, and every record skipped in a backtest, is reported with a
\* reason: the log holds an entry about that item.
C21_SkippedItemsAreReported ==
    /\ inp.op = "scan" =>
          \A ticker \in DOMAIN out.runs :
              (out.runs[ticker].raised \/ IsEmpty(out.runs[ticker].df))
                  => ScanReasons(inp.before, now, ticker, inp.cfg, market[ticker],
                                 out.runs[ticker].wr) # {}
    /\ inp.op = "backtest" =>
          \A id \in DOMAIN out.runs :
              out.runs[id].record = Nothing
                  => BacktestReasons(inp.before, now, inp.reports[id],
                                     BacktestSettings, market, out.runs[id].mode,
                                     out.runs[id].wr, out.runs[id].fault) # {}


(***************************************************************************)
(* The sequential mode of the two pipelines.                               *)
(***************************************************************************)
\* The items of a run were taken one at a time in the order of the list.
InInputOrder(items) ==
    out.order = SubSeq(InputOrder(items), 1, Len(out.order))

\* The results a finished backtest gives are those of its reports each
\* analysed alone from the cache the run started with, whatever the mode.
BacktestResultsOfReportsAlone ==
    out.dataset # Nothing =>
        {out.dataset[1][i] : i \in 1..Len(out.dataset[1])}
            = UNION {{rec[1] : rec \in
                        {BacktestTask(inp.before, now, inp.reports[id],
                             BacktestSettings, market, out.runs[id].mode,
                             out.runs[id].wr, out.runs[id].fault).record}
                        \ {Nothing}} : id \in DOMAIN inp.reports}

\* The same of a finished scan.
ScanResultsOfTickersAlone ==
    out.ranked =>
        {out.final_candidates[i] : i \in 1..Len(out.final_candidates)}
            = UNION {{cand[1] : cand \in
                        {ScanAnalyzeSingleTicker(inp.before, now, ticker,
                             inp.cfg, market[ticker],
                             out.runs[ticker].wr).candidate}
                        \ {Nothing}} : ticker \in inp.raw_candidates}

\* The backtest's debug mode: the reports are analysed in the order of the
\* list, and the results are those of the parallel mode.
BacktestDebugModeIsSequential ==
    inp.op = "backtest" =>
        /\ inp.debug_mode => InInputOrder(DOMAIN inp.reports)
        /\ BacktestResultsOfReportsAlone

BacktestDebugModeWitness ==
    /\ inp.op = "backtest"
    /\ inp.debug_mode
    /\ out.dataset # Nothing
    /\ Len(out.order) = Cardinality(BacktestTickers)
    /\ out.dataset[1] # << >>

\* C22: both pipelines, the scan and the backtest, offer a sequential
\* (debug) mode: when it is asked for, the items are processed one at a time
\* in the order of the input list, and the run gives the same set of results
\* as the parallel mode for the same inputs and data.
C22_SequentialModeInBothPipelines ==
    /\ BacktestDebugModeIsSequential
    /\ inp.op = "scan" =>
          /\ inp.debug_mode => InInputOrder(inp.raw_candidates)
          /\ ScanResultsOfTickersAlone


(***************************************************************************)
(* The bars behind the figures of a BacktestRecord.                        *)
(***************************************************************************)
\* A date of the performance window of a record: strictly after the entry
\* and no later than performance_window_days after it.
InPerformanceWindow(record, date) ==
    /\ date > record.entry_date
    /\ date <= record.entry_date + BacktestSettings.performance_window_days

\* The maximum return, the maximum drawdown and the exit of a record are
\* taken at bars of the performance window.
ExtremesInPerformanceWindow ==
    (inp.op = "analyze_single_ticker" /\ out.record # Nothing) =>
        LET record == out.record[1]
        IN  /\ InPerformanceWindow(record, record.max_return_date)
            /\ InPerformanceWindow(record, record.max_drawdown_date)
            /\ record.exit_date # Nothing =>
                  InPerformanceWindow(record, record.exit_date[1])

\* C23: in a BacktestRecord the maximum return, the maximum drawdown and
\* the most recent (current) return are all computed over the same bars as
\* the outcome: only bars strictly after entry_date and no later than
\* entry_date + performance_window_days.
C23_FiguresOverThePerformanceWindow ==
    (inp.op = "analyze_single_ticker" /\ out.record # Nothing) =>
        /\ ExtremesInPerformanceWindow
        /\ InPerformanceWindow(out.record[1], out.record[1].current_date)


\* C23, amended: the maximum return, the maximum drawdown and the exit are
\* taken at bars of the performance window, as the outcome is; the current
\* return is taken at the latest complete bar after entry_date that the
\* provider has, which may lie after the window.
C23_CurrentReturnAtLatestBar ==
    (inp.op = "analyze_single_ticker" /\ out.record # Nothing) =>
        LET record == out.record[1]
        IN  /\ ExtremesInPerformanceWindow
            /\ record.current_date > record.entry_date
            /\ \E bar \in market :
                  /\ bar.date = record.current_date
                  /\ ~bar.na
                  /\ record.current_return_pct
                        = ReturnPct(bar.close, record.entry_price)
            /\ \A bar \in market : ~bar.na => bar.date <= record.current_date

C23_Witness ==
    /\ inp.op = "analyze_single_ticker"
    /\ out.record # Nothing
    /\ ~InPerformanceWindow(out.record[1], out.record[1].current_date)
    /\ out.record[1].exit_date # Nothing
    /\ out.record[1].max_return_date # out.record[1].max_drawdown_date


(***************************************************************************)
(* Convergence within one window.                                          *)
(***************************************************************************)
\* The index of the earliest extremum the window keeps: the first kept high
\* or the first kept low, whichever comes first.
EarliestExtremum(w) ==
    LET slice == SliceOf(market, w)
        order == CurrentOrder(inp.det, w)
        highs == KeepHighest(inp.det,
                     FilterSignificantExtrema(inp.det, order, slice.high, TRUE))
        lows == FilterSignificantExtrema(inp.det, order, slice.low, FALSE)
    IN  IF highs[1].idx < lows[1].idx THEN highs[1].idx ELSE lows[1].idx

\* The gap between the fitted trendlines of window w at bar x.
Gap(w, x) ==
    LineAt(out.windows[w].trendlines[1].upper[1], x)
        - LineAt(out.windows[w].trendlines[1].lower[1], x)

\* C24: within one window is_converging holds exactly when the upper
\* trendline's slope is less than the lower's and compression is below the
\* threshold, where compression is the gap at the window's last bar over the
\* gap at the earliest extremum index; when that initial gap is <= 0,
\* compression is 1.0 and no division is made.
C24_ConvergingIffSlopesAndCompression ==
    Analyzed =>
        \A w \in FittedWindows :
            LET fit == out.windows[w]
                initial == Gap(w, EarliestExtremum(w))
                final == Gap(w, w - 1)
                threshold == inp.det.convergence_threshold
            IN  /\ initial <= 0 => fit.compression = Some(100)
                /\ initial > 0 =>
                      /\ fit.compression[1] * initial <= final * 100
                      /\ final * 100 < (fit.compression[1] + 1) * initial
                /\ fit.is_converging[1]
                      <=> /\ fit.trendlines[1].upper[1].slope
                                < fit.trendlines[1].lower[1].slope
                          /\ IF initial > 0 THEN final * 100 < threshold * initial
                             ELSE 100 < threshold

\* A window whose lines start apart, the upper falling faster than the
\* lower, and whose gap has closed below the threshold.
C24_Witness ==
    /\ Analyzed
    /\ \E w \in FittedWindows :
          /\ Gap(w, EarliestExtremum(w)) > 0
          /\ out.windows[w].is_converging = Some(TRUE)
          /\ out.windows[w].compression[1] >= 0


(***************************************************************************)
(* The window analyze_convergence selects.                                 *)
(***************************************************************************)
\* The patterns analyze_convergence returned in the scan, by ticker, and
\* the fits of the frame each was computed from.
ReturnedPatterns == {tk \in DOMAIN out.runs : out.runs[tk].pattern # Nothing}

FitsOf(ticker) == out.runs[ticker].df.feat[1].fits

\* The windows 40, 50, ..., 350 within the length of the ticker's series
\* whose fit is both converging and breaking out.
ConvergingBreakouts(ticker) ==
    {w \in DOMAIN FitsOf(ticker) :
        /\ \E k \in 0..31 : w = 40 + 10 * k
        /\ w <= out.runs[ticker].df.feat[1].bars
        /\ FitsOf(ticker)[w].is_converging = Some(TRUE)
        /\ FitsOf(ticker)[w].is_breaking_out = Some(TRUE)}

\* r2_high * (1.5 if r2_high > 0.8 else 1.0) * (1.2 if window <= 90 else
\* 1.0) of window w, in ten-thousandths.
WindowScore(ticker, w) ==
    LET r2_high == FitsOf(ticker)[w].r2_high[1]
    IN  r2_high * (IF r2_high > 80 THEN 15 ELSE 10)
                * (IF w <= 90 THEN 12 ELSE 10)

TtlOfCall ==
    IF inp.op = "fetch_historical_data" THEN CacheExpiryHours
    ELSE IF (inp.at - inp.end_date) \div HoursPerDay <= RangeRecentDays
    THEN RangeRecentTtlHours
    ELSE RangeHistoricTtlHours

\* The call found a file that is stale, unreadable, or without rows.
FoundUnusableFile ==
    /\ IsFetch
    /\ HadFile
    /\ \/ inp.at - FileBefore.mtime >= TtlOfCall
       \/ ~FileBefore.readable
       \/ FileBefore.df.rows = {}

\* The download returned rows with the expected columns and the save went
\* through.
RemoteSucceededWithRows ==
    /\ ~inp.raw.err
    /\ inp.raw.rows # {}
    /\ inp.raw.cols # "missing"
    /\ inp.wr = "ok"

\* The rows of the answer that have every field.
CompleteRows ==
    {[date |-> r.date, close |-> r.close, na |-> FALSE] :
        r \in {x \in inp.raw.rows : ~x.na}}

\* C26: a cache file that is stale (age >= TTL), unreadable, or that holds
\* an empty series is never returned by a fetch: the fetch calls the remote,
\* and when that succeeds with rows the file is replaced as a whole by the
\* newly fetched series, which is what the fetch returns.
C26_UnusableFileFallsThrough ==
    FoundUnusableFile =>
        /\ out.remote
        /\ RemoteSucceededWithRows =>
              /\ out.df.rows = CompleteRows
              /\ cache[inp.key] = [readable |-> TRUE, df |-> out.df, mtime |-> inp.at]
              /\ \A k \in DOMAIN cache \ {inp.key} :
                    k \in DOMAIN inp.before /\ cache[k] = inp.before[k]

\* A fixed-window fetch found a fresh but unreadable file, downloaded rows
\* and replaced the file.
C26_Witness ==
    /\ inp.op = "fetch_historical_data"
    /\ ~inp.force_refresh
    /\ FoundUnusableFile
    /\ inp.at - FileBefore.mtime < TtlOfCall
    /\ ~FileBefore.readable
    /\ RemoteSucceededWithRows
    /\ out.df.rows # {}
    /\ cache[inp.key].readable


(***************************************************************************)
(* Freshness of a range file.                                              *)
(***************************************************************************)
\* A range fetch that found a readable file with rows: the file is served
\* exactly when it is fresh.
RangeFetchFoundGoodFile ==
    /\ inp.op = "fetch_historical_data_range"
    /\ HadFile
    /\ FileBefore.readable
    /\ FileBefore.df.rows # {}

ServedFromCache == ~out.remote /\ out.df = FileBefore.df

AgeOfFile == inp.at - FileBefore.mtime

\* The calendar day of an instant.
DayOf(t) == t \div HoursPerDay

IsConvergingPattern(result) ==
    /\ result.is_converging = Some(TRUE)
    /\ result.used_window # Nothing
    /\ result.used_window[1] \in AdaptiveWindows
    /\ result.trendlines # Nothing
    /\ result.trendlines[1].upper # Nothing
    /\ result.trendlines[1].lower # Nothing

\* C28: every result of analyze_convergence with is_breaking_out true also
\* has is_converging true and carries used_window and both trendlines; so
\* every candidate of the scan is a converging pattern.
C28_BreakoutOnlyOfConvergingPattern ==
    (inp.op = "scan") =>
        /\ \A ticker \in ReturnedPatterns :
              out.runs[ticker].pattern[1].is_breaking_out = Some(TRUE)
                  => IsConvergingPattern(out.runs[ticker].pattern[1])
        /\ \A i \in 1..Len(out.final_candidates) :
              IsConvergingPattern(out.final_candidates[i].pattern)

\* A ranked scan of two tickers: one gave a candidate; the series of the
\* other has a window that breaks out without converging, and its result
\* reports no breakout.
C28_Witness ==
    /\ inp.op = "scan"
    /\ out.ranked
    /\ Len(out.final_candidates) = 1
    /\ \E ticker \in ReturnedPatterns :
          /\ \E w \in DOMAIN FitsOf(ticker) :
                /\ FitsOf(ticker)[w].is_breaking_out = Some(TRUE)
                /\ FitsOf(ticker)[w].is_converging = Some(FALSE)
          /\ out.runs[ticker].pattern[1].is_breaking_out = Some(FALSE)
          /\ out.runs[ticker].candidate = Nothing

(***************************************************************************)
(* The candidates handed to the chart writer, and the completion order.    *)
(***************************************************************************)
\* The candidates of a finished scan had its workers completed in the order
\* of the input list, ranked.
RankedInInputOrder ==
    LET with_candidate == SelectSeq(InputOrder(inp.raw_candidates),
                              LAMBDA tk : out.runs[tk].candidate # Nothing)
    IN  SortByScore([i \in 1..Len(with_candidate) |->
                        out.runs[with_candidate[i]].candidate[1]])

\* candidates[:top_n] of _generate_outputs(final_candidates).
HandedToChartWriter(candidates) ==
    SubSeq(candidates, 1, Min(inp.top_n, Len(candidates)))

\* C29: for given per-ticker results, the list of candidates handed to the
\* chart writer (which tickers, in which order) is the same whatever the
\* order in which the workers complete, equal scores around the top_n
\* cut-off included: it is the list a completion in input order gives.
C29_ChartedListIndependentOfCompletionOrder ==
    (inp.op = "scan" /\ out.ranked) =>
        HandedToChartWriter(out.final_candidates)
            = HandedToChartWriter(RankedInInputOrder)

(***************************************************************************)
(* The outcome of a BacktestRecord and its extremes.                       *)
(***************************************************************************)
\* The closes of the complete bars of the record's performance window.
WindowCloses(record) ==
    {bar.close : bar \in {b \in market :
                             ~b.na /\ InPerformanceWindow(record, b.date)}}

\* The return of a close is at least the target, (close - entry) / entry
\* * 100 >= 100 * target_profit, on the exact values.
AtOrAboveTarget(record, close) ==
    (close - record.entry_price) * 100
        >= BacktestSettings.target_profit * record.entry_price

\* The return of a close is at most minus the stop, likewise.
AtOrBelowStop(record, close) ==
    (close - record.entry_price) * 100
        <= -BacktestSettings.stop_loss * record.entry_price

\* C30: in every BacktestRecord the outcome agrees with the extremes of the
\* performance window, taken before rounding: Pending implies the maximum
\* return is below the target and the maximum drawdown above minus the
\* stop; Success implies the maximum return reaches the target; Failure
\* implies the maximum drawdown reaches minus the stop; exit_date is present
\* exactly when the outcome is not Pending, and then entry_date < exit_date
\* <= entry_date + performance_window_days.
C30_OutcomeAgreesWithExtremes ==
    (inp.op = "analyze_single_ticker" /\ out.record # Nothing) =>
        LET record == out.record[1]
            closes == WindowCloses(record)
        IN  /\ record.outcome \in {"Pending", "Success", "Failure"}
            /\ record.outcome = "Pending" =>
                  \A close \in closes : /\ ~AtOrAboveTarget(record, close)
                                        /\ ~AtOrBelowStop(record, close)
            /\ record.outcome = "Success" =>
                  \E close \in closes : AtOrAboveTarget(record, close)
            /\ record.outcome = "Failure" =>
                  \E close \in closes : AtOrBelowStop(record, close)
            /\ record.exit_date # Nothing <=> record.outcome # "Pending"
            /\ record.exit_date # Nothing =>
                  InPerformanceWindow(record, record.exit_date[1])

\* A Pending record whose window has several bars, none reaching a limit.
C30_Witness ==
    /\ inp.op = "analyze_single_ticker"
    /\ out.record # Nothing
    /\ out.record[1].outcome = "Pending"
    /\ out.record[1].exit_date = Nothing
    /\ \E b1, b2 \in market :
          /\ b1.date < b2.date
          /\ ~b1.na /\ ~b2.na
          /\ InPerformanceWindow(out.record[1], b1.date)
          /\ InPerformanceWindow(out.record[1], b2.date)

====
